---- MODULE Spec2Model ----
(***************************************************************************)
(* Crawl engine of the stealth crawler: URL normaliser (utils.py), scope   *)
(* engine (scope_manager.py), local crawl (stealth_crawler.py), CLI        *)
(* orchestrator (main.py) and Redis-coordinated crawl (distributed.py).    *)
(*                                                                         *)
(* A URL is a record [host, port, path, query, frag]: host is the sequence *)
(* of DNS labels, path a sequence of tokens ("/" or a segment), query a    *)
(* sequence of [k, v] parameters.  The scheme is https throughout.         *)
(***************************************************************************)
EXTENDS Integers, Sequences, FiniteSets, TLC

VARIABLES
    variant,          \* which side of the utils.py merge conflict is built
    web,              \* which site the fetcher sees
    n_in,             \* the url string handed to normalize_url
    n_out,            \* what the successive normalize_url calls returned
    ck_state,         \* the dict create_state_snapshot returned: <<>> or <<dict>>
    ck_file,          \* checkpoints/<name>.json: <<>> or <<its JSON content>>
    ck_saved,         \* what save() returned: <<>> before the call, else <<True>> / <<False>>
    ck_loaded,        \* what load() returned, if it was called
    scope_manager,    \* ScopeManager fields (one record)
    queue,            \* StealthCrawler.queue: sequence of <<url, depth>>
    unfinished,       \* asyncio.Queue._unfinished_tasks of that queue
    visited,          \* StealthCrawler.visited
    results,          \* StealthCrawler.results
    running,          \* StealthCrawler.running
    crawl_pc,         \* position of StealthCrawler.crawl
    max_depth_arg,    \* max_depth as passed to crawl()
    max_depth,        \* max_depth after line 145
    w_pc,             \* position of each _worker task
    w_item,           \* the <<url, depth>> a worker holds
    put_count,        \* history: how many times each url was put on the queue
    stop_requested,   \* history: DELETE /crawl/{id} has set running = False
    urls,             \* main.py args.urls
    max_pages,        \* main.py args.max_pages
    retries,          \* main.py args.retries
    url_cache,        \* CrawlState.url_cache.visited (mirrors the cache file)
    visited_urls,     \* CrawlState.visited_urls
    url_queue,        \* CrawlState.url_queue: sequence of urls
    m_unfinished,     \* asyncio.Queue._unfinished_tasks of url_queue
    m_results,        \* CrawlState.results: dict url -> record
    checkpoint,       \* what save_checkpoint last handed to the checkpoint manager
    o_pc,             \* position of ReconOrchestrator.crawl_main
    mw_pc,            \* position of each ReconOrchestrator.worker task
    mw_url,           \* the url a worker holds
    mw_attempt,       \* attempt number inside process_url_with_retries
    mw_hist,          \* history: the attempts and sleeps of each worker's current or last url
    m_put_count,      \* history: how many times each url was pushed to url_queue
    resumed_from,     \* the snapshot named by a "resume" command, <<>> before any
    d_queue,          \* Redis list stealth:queue: sequence of [url, depth]
    d_visited,        \* Redis set stealth:visited
    d_results,        \* Redis list stealth:results
    d_master_pc,      \* position of run_master
    d_max_depth_arg,  \* max_depth as passed to run_master
    d_config_depth,   \* config.max_depth of the distributed crawler's Config
    d_pc,             \* position of each run_worker process
    d_item,           \* the [url, depth] a distributed worker holds
    d_links,          \* the links a worker still has to offer in add_urls
    s_url,            \* the url of the last is_in_scope call on the current scope
    rl_min_interval,      \* RateLimiter.min_interval, seconds as a fraction <<n, d>>
    rl_current_interval,  \* RateLimiter.current_interval, seconds as a fraction <<n, d>>
    rl_error_count,       \* RateLimiter.error_count
    rl_success_count,     \* RateLimiter.success_count
    rl_adaptive,          \* RateLimiter.adaptive
    rl_last,              \* history: the last call on the RateLimiter and the interval before it
    tb_rate,              \* TokenBucketLimiter.rate, tokens per period (period = 1 s)
    tb_capacity,          \* TokenBucketLimiter.capacity
    tb_tokens,            \* TokenBucketLimiter.tokens
    tb_updated_at,        \* TokenBucketLimiter.updated_at, in ticks
    tb_now,               \* time.monotonic(), in ticks
    tb_holder,            \* the acquirer inside `async with self.lock`, 0 if none
    tb_wake,              \* when each sleeping acquirer's asyncio.sleep is over
    tb_log,               \* history: the times at which acquire() calls completed
    s_decision,       \* what that call returned: <<>> before any call, else <<True>> or <<False>>
    s_test,           \* what the last test_url call returned, in a 1-tuple; <<>> if none
    px_proxies,       \* ProxyManager.proxies: sequence of [id, health], health in hundredths
    px_index,         \* ProxyManager.current_index (0-based)
    px_last,          \* how the last get_proxy call ended; <<>> before any
    px_reports        \* history: number of report_success / report_failure calls

localVars == <<queue, unfinished, visited, results, running, crawl_pc,
               max_depth_arg, max_depth, w_pc, w_item, put_count, stop_requested>>

mainVars == <<urls, max_pages, retries, url_cache, visited_urls, url_queue, m_unfinished,
              m_results, checkpoint, o_pc, mw_pc, mw_url, mw_attempt, mw_hist,
              m_put_count, resumed_from>>

distVars == <<d_queue, d_visited, d_results, d_master_pc, d_max_depth_arg, d_config_depth,
              d_pc, d_item, d_links>>

scopeVars == <<s_url, s_decision, s_test>>

pacerVars == <<rl_min_interval, rl_current_interval, rl_error_count, rl_success_count,
               rl_adaptive, rl_last>>

bucketVars == <<tb_rate, tb_capacity, tb_tokens, tb_updated_at, tb_now, tb_holder, tb_wake,
                tb_log>>

normVars == <<n_in, n_out>>

ckptVars == <<ck_state, ck_file, ck_saved, ck_loaded>>

proxyVars == <<px_proxies, px_index, px_last, px_reports>>

vars == <<variant, web, scope_manager, localVars, mainVars, distVars, scopeVars, pacerVars,
          bucketVars, normVars, ckptVars, proxyVars>>

notLocal == <<web, mainVars, distVars, scopeVars, pacerVars, bucketVars, normVars, ckptVars, proxyVars>>
notMain == <<web, localVars, distVars, scopeVars, pacerVars, bucketVars, normVars, ckptVars, proxyVars>>
notDist == <<web, localVars, mainVars, scopeVars, pacerVars, bucketVars, normVars, ckptVars, proxyVars>>
notScope == <<web, localVars, mainVars, distVars, pacerVars, bucketVars, normVars, ckptVars, proxyVars>>
notPacer == <<web, localVars, mainVars, distVars, scopeVars, bucketVars, normVars, ckptVars, proxyVars>>
notBucket == <<web, localVars, mainVars, distVars, scopeVars, pacerVars, normVars, ckptVars, proxyVars>>
notNorm == <<web, localVars, mainVars, distVars, scopeVars, pacerVars, bucketVars, ckptVars, proxyVars>>
notProxy == <<web, localVars, mainVars, distVars, scopeVars, pacerVars, bucketVars, normVars,
              ckptVars>>
notCkpt == <<web, localVars, mainVars, distVars, scopeVars, pacerVars, bucketVars, normVars, proxyVars>>

----------------------------------------------------------------------------
(* Bounds of the model *)

NumWorkers == 2
MaxSeeds == 2
MaxDepthArg == 2
MaxPagesArg == 2
MaxRetries == 1
MaxPatterns == 2
MaxErrors == 6
MaxSuccesses == 12
MaxReductions == 3
MaxTime == 10
TicksPerSecond == 4
MaxCalls == 2
MaxProxies == 2
MaxReports == 12

(* --rate-limit default, main.py *)

ConfigRateLimit == 5

(* CrawlerConfig.requests_per_second default *)

ConfigRPS == 2

(* CrawlerConfig.max_depth default *)
ConfigMaxDepth == 5

Workers == 1..NumWorkers

----------------------------------------------------------------------------
(* Small helpers on sequences and sets *)

Range(s) == {s[i] : i \in 1..Len(s)}

Last(s) == s[Len(s)]

Perms(S) == {s \in [1..Cardinality(S) -> S] : \A i, j \in 1..Cardinality(S) : s[i] = s[j] => i = j}

SeqsUpTo(S, n) == UNION {[1..k -> S] : k \in 0..n}

None == [host |-> <<>>, port |-> ""]

\* seconds are exact fractions <<n, d>> in lowest terms, d > 0
RECURSIVE GCD(_, _)
GCD(a, b) == IF b = 0 THEN a ELSE GCD(b, a % b)

Frac(n, d) == <<n \div GCD(n, d), d \div GCD(n, d)>>
FracMul(a, b) == Frac(a[1] * b[1], a[2] * b[2])
FracLeq(a, b) == a[1] * b[2] <= b[1] * a[2]
FracLt(a, b) == a[1] * b[2] < b[1] * a[2]
FracMin(a, b) == IF FracLeq(a, b) THEN a ELSE b
FracMax(a, b) == IF FracLeq(a, b) THEN b ELSE a

----------------------------------------------------------------------------
(* URL normaliser, utils.py *)

URL(h, po, pa, q, f) == [host |-> h, port |-> po, path |-> pa, query |-> q, frag |-> f]

\* str.lower() on one DNS label
LowerLabel(l) == CASE l = "S" -> "s" [] l = "ADMIN" -> "admin" [] OTHER -> l

Lower(h) == [i \in 1..Len(h) |-> LowerLabel(h[i])]

\* str.rstrip('/') restricted to the path tokens
RECURSIVE RStripSlash(_)
RStripSlash(p) ==
    IF p # <<>> /\ Last(p) = "/" THEN RStripSlash(SubSeq(p, 1, Len(p) - 1)) ELSE p

\* re.sub(r"/+", "/", path)
RECURSIVE CollapseSlashes(_)
CollapseSlashes(p) ==
    IF Len(p) < 2 THEN p
    ELSE IF p[1] = "/" /\ p[2] = "/" THEN CollapseSlashes(Tail(p))
    ELSE <<p[1]>> \o CollapseSlashes(Tail(p))

QueryKeys == <<"a", "b">>

\* parse_qs + sorted(params.items()) + urlencode(doseq=True)
RECURSIVE SortQueryFrom(_, _)
SortQueryFrom(q, i) ==
    IF i > Len(QueryKeys) THEN <<>>
    ELSE SelectSeq(q, LAMBDA p : p.k = QueryKeys[i]) \o SortQueryFrom(q, i + 1)

SortQuery(q) == SortQueryFrom(q, 1)

\* normalize_url, HEAD side of the conflict
normalize_url_HEAD(u) ==
    LET n == [host |-> Lower(u.host), port |-> u.port,
              path |-> IF u.path = <<>> THEN <<"/">> ELSE u.path,
              query |-> u.query, frag |-> ""]
        endsWithSlash == n.query = <<>> /\ Last(n.path) = "/"
    IN IF endsWithSlash /\ Len(n.path) > 1
       THEN [n EXCEPT !.path = RStripSlash(n.path)]
       ELSE n

\* normalize_url, main side of the conflict
normalize_url_main(u) ==
    LET netloc_port == IF u.port = "443" THEN "" ELSE u.port
        path0 == IF u.path = <<>> THEN <<"/">> ELSE u.path
        path1 == IF path0[1] # "/" THEN <<"/">> \o path0 ELSE path0
    IN [host |-> Lower(u.host), port |-> netloc_port,
        path |-> CollapseSlashes(path1),
        query |-> SortQuery(u.query), frag |-> ""]

normalize_url(u) ==
    IF variant = "HEAD" THEN normalize_url_HEAD(u) ELSE normalize_url_main(u)

get_domain(u) ==
    IF u.host = <<>> THEN None ELSE [host |-> Lower(u.host), port |-> u.port]

is_valid_url(u) == u.host # <<>>

----------------------------------------------------------------------------
(* Scope engine, scope_manager.py.  A pattern is the sequence of its       *)
(* dot-separated tokens: "*.example.com" is <<"*", "example", "com">>.     *)

\* labels the class [a-z0-9]([a-z0-9\-]*[a-z0-9])? rejects
InvalidLabels == {"_dmarc"}

HasStar(p) == \E i \in 1..Len(p) : p[i] \in {"*", "**"}

\* _pattern_to_regex: "**." becomes MANY, "*." becomes ONE, the rest is literal
pattern_to_regex(p) ==
    [i \in 1..Len(p) |->
        IF p[i] = "**" /\ i < Len(p) THEN "MANY"
        ELSE IF p[i] = "*" /\ i < Len(p) THEN "ONE"
        ELSE p[i]]

\* regex.fullmatch on the labels of a host
RECURSIVE RegexMatchLabels(_, _)
RegexMatchLabels(r, h) ==
    IF r = <<>> THEN h = <<>>
    ELSE IF h = <<>> THEN FALSE
    ELSE CASE r[1] = "ONE" ->
                h[1] \notin InvalidLabels /\ RegexMatchLabels(Tail(r), Tail(h))
           [] r[1] = "MANY" ->
                h[1] \notin InvalidLabels
                /\ (RegexMatchLabels(Tail(r), Tail(h)) \/ RegexMatchLabels(r, Tail(h)))
           [] OTHER -> r[1] = h[1] /\ RegexMatchLabels(Tail(r), Tail(h))

\* regex.fullmatch(domain): the domain is the netloc, port included
fullmatch(r, d) == d.port = "" /\ RegexMatchLabels(r, d.host)

\* domain in self.in_scope_domains: string equality with the netloc
DomainIn(d, S) == d.port = "" /\ d.host \in S

NewScopeManager ==
    [in_scope_patterns |-> <<>>, out_of_scope_patterns |-> <<>>,
     in_scope_domains |-> {}, out_of_scope_domains |-> {},
     in_scope_regexes |-> <<>>, out_of_scope_regexes |-> <<>>]

add_in_scope(sm, pattern) ==
    LET p == Lower(pattern)
    IN IF HasStar(p)
       THEN [sm EXCEPT !.in_scope_patterns = Append(@, p),
                       !.in_scope_regexes = Append(@, pattern_to_regex(p))]
       ELSE [sm EXCEPT !.in_scope_patterns = Append(@, p),
                       !.in_scope_domains = @ \cup {p}]

add_out_of_scope(sm, pattern) ==
    LET p == Lower(pattern)
    IN IF HasStar(p)
       THEN [sm EXCEPT !.out_of_scope_patterns = Append(@, p),
                       !.out_of_scope_regexes = Append(@, pattern_to_regex(p))]
       ELSE [sm EXCEPT !.out_of_scope_patterns = Append(@, p),
                       !.out_of_scope_domains = @ \cup {p}]

matches_in_scope(sm, d) ==
    \/ DomainIn(d, sm.in_scope_domains)
    \/ \E i \in 1..Len(sm.in_scope_regexes) : fullmatch(sm.in_scope_regexes[i], d)

matches_out_of_scope(sm, d) ==
    \/ DomainIn(d, sm.out_of_scope_domains)
    \/ \E i \in 1..Len(sm.out_of_scope_regexes) : fullmatch(sm.out_of_scope_regexes[i], d)

is_in_scope(sm, url) ==
    LET domain == get_domain(normalize_url(url))
    IN IF domain = None THEN FALSE
       ELSE IF matches_out_of_scope(sm, domain) THEN FALSE
       ELSE IF sm.in_scope_patterns = <<>> THEN TRUE
       ELSE matches_in_scope(sm, domain)

\* test_url lines 217-219 and 224-226: the entries for the regexes that match,
\* each named by the pattern at the regex's own index
RegexEntries(regexes, patterns, d) ==
    LET hits == SelectSeq([i \in 1..Len(regexes) |-> i],
                          LAMBDA i : fullmatch(regexes[i], d))
    IN [k \in 1..Len(hits) |-> <<"pattern", patterns[hits[k]]>>]

\* test_url lines 213-215 and 220-222: the entry for an exact match
ExactEntry(domains, d) ==
    IF DomainIn(d, domains) THEN << <<"exact", d.host>> >> ELSE <<>>

\* ScopeManager.test_url
test_url(sm, url) ==
    LET domain == get_domain(url)
        matches_in == IF domain = None THEN <<>>
                      ELSE ExactEntry(sm.in_scope_domains, domain)
                           \o RegexEntries(sm.in_scope_regexes, sm.in_scope_patterns, domain)
        matches_out == IF domain = None THEN <<>>
                       ELSE ExactEntry(sm.out_of_scope_domains, domain)
                            \o RegexEntries(sm.out_of_scope_regexes,
                                            sm.out_of_scope_patterns, domain)
    IN [in_scope |-> is_in_scope(sm, url),
        matches_in_scope |-> matches_in,
        matches_out_of_scope |-> matches_out,
        reason |-> IF matches_out # <<>> THEN "EXCLUDED"
                   ELSE IF matches_in # <<>> THEN "INCLUDED" ELSE "NO_MATCH"]

RECURSIVE AddAllIn(_, _)
AddAllIn(sm, ps) == IF ps = <<>> THEN sm ELSE AddAllIn(add_in_scope(sm, Head(ps)), Tail(ps))

RECURSIVE AddAllOut(_, _)
AddAllOut(sm, ps) == IF ps = <<>> THEN sm ELSE AddAllOut(add_out_of_scope(sm, Head(ps)), Tail(ps))

create_scope_manager(in_scope, out_of_scope) ==
    AddAllOut(AddAllIn(NewScopeManager, in_scope), out_of_scope)

----------------------------------------------------------------------------
(* The web the fetcher sees: the hrefs of each page, as written in the     *)
(* HTML.  Every page other than the four below has no links.               *)

HostS == <<"s", "example", "com">>
HostAdmin == <<"admin", "example", "com">>
HostEvil == <<"evil", "org">>

PageRoot == URL(HostS, "", <<"/">>, <<>>, "")
PageA == URL(HostS, "", <<"/", "a">>, <<>>, "")
PageB == URL(HostS, "", <<"/", "b">>, <<>>, "")
PageC == URL(HostS, "", <<"/", "c">>, <<>>, "")
PageAdmin == URL(HostAdmin, "", <<"/">>, <<>>, "")
PageEvil == URL(HostEvil, "", <<"/">>, <<>>, "")

RawRoot == URL(<<"S", "example", "com">>, "", <<>>, <<>>, "")
RawAFrag == URL(HostS, "", <<"/", "a">>, <<>>, "frag")

\* /a?b=1&a=2 and /a?a=2&b=1
QueryBA == <<[k |-> "b", v |-> "1"], [k |-> "a", v |-> "2"]>>
QueryAB == <<[k |-> "a", v |-> "2"], [k |-> "b", v |-> "1"]>>
RawAQueryBA == URL(HostS, "", <<"/", "a">>, QueryBA, "")
RawAQueryAB == URL(HostS, "", <<"/", "a">>, QueryAB, "")

\* the site of most scenarios
SiteHrefs(u) ==
    CASE u = PageRoot -> {PageA, RawAFrag, PageAdmin}
      [] u = PageA -> {PageB, RawRoot}
      [] u = PageB -> {PageC, PageEvil}
      [] u = PageAdmin -> {PageA}
      [] OTHER -> {}

\* a site whose front page links to four spellings of /a
VariantHrefs(u) ==
    IF u = PageRoot THEN {PageA, RawAFrag, RawAQueryBA, RawAQueryAB} ELSE {}

\* a site where /b is one link away from the admin host and two links away
\* from /a
DiamondHrefs(u) ==
    CASE u = PageAdmin -> {PageB}
      [] u = PageA -> {PageC}
      [] u = PageC -> {PageB}
      [] u = PageB -> {PageRoot}
      [] OTHER -> {}

Hrefs(u) ==
    CASE web = "variants" -> VariantHrefs(u)
      [] web = "diamond" -> DiamondHrefs(u)
      [] OTHER -> SiteHrefs(u)

\* URLs a caller may pass as seeds
SeedURLs == {RawRoot, RawAFrag, PageAdmin}

\* scope configurations a crawl is started with: <<in_scope, out_of_scope>>
ScopeConfigs ==
    { << << <<"*", "example", "com">> >>, << <<"ADMIN", "example", "com">> >> >>,
      << <<>>, << <<"evil", "org">> >> >> }

\* the scope of the crawl of the site with the four spellings of /a
VariantScope == << << <<"*", "example", "com">> >>, <<>> >>

\* the site and the scope a local crawl is started with
LocalScenarios ==
    {<<"site", cfg>> : cfg \in ScopeConfigs} \cup {<<"variants", VariantScope>>}

\* extract_links: resolve, keep valid urls, normalise, deduplicate
extract_links(base_url) ==
    {normalize_url(h) : h \in {l \in Hrefs(base_url) : is_valid_url(l)}}

----------------------------------------------------------------------------
(* Local crawl, stealth_crawler.py *)

\* how a fetch can end: 2xx page, non-2xx page, goto raises, title/content raises
Outcomes == {"ok", "http_error", "exc_goto", "exc_content"}

\* the outcomes the fetcher can produce for each page of the web
OutcomesOf(u) ==
    CASE u = PageRoot -> Outcomes
      [] u = PageA -> {"ok", "http_error"}
      [] u = PageB -> {"ok", "exc_content"}
      [] OTHER -> {"ok", "exc_goto"}

\* _crawl_page: the record built for one fetch, and the links it carries
crawl_page(url, depth, outcome) ==
    [url |-> url, depth |-> depth,
     success |-> outcome \in {"ok", "exc_content"},
     error |-> outcome \in {"exc_goto", "exc_content"},
     links |-> IF outcome \in {"ok", "http_error"} THEN extract_links(url) ELSE {}]

\* the part of a CrawlResult kept in self.results
Stored(r) == [url |-> r.url, depth |-> r.depth, success |-> r.success, error |-> r.error]

\* line 145: max_depth = max_depth or self.config.max_depth
EffectiveMaxDepth(md) == IF md = 0 THEN ConfigMaxDepth ELSE md

\* the visited test left out
AlreadyVisited_never(url) == FALSE

\* line 187: if url in self.visited
AlreadyVisited(url) == url \in visited

\* the scope test on discovered links left out
LinkAccepted_noscope(normalized) == normalized \notin visited

\* line 203: the test a discovered link passes before it is queued
LinkAccepted(normalized) ==
    normalized \notin visited /\ is_in_scope(scope_manager, normalized)

\* line 150: the test a seed passes before it is queued
SeedAccepted(normalized) == is_in_scope(scope_manager, normalized)

\* line 200: links are followed only from a successful page within depth
FollowLinks(r, md) == r.depth < md /\ r.success

\* continue without reaching task_done
AckSkip_missing(n) == n

\* line 209: queue.task_done() on the already-visited path
AckSkip(n) == n - 1

\* task_done() reached twice for one item
AckDone_twice(n) == n - 2

\* line 209: queue.task_done() after a page was processed
AckDone(n) == n - 1

\* line 180: while self.running
LoopTop == IF running THEN "get" ELSE "stopped"

\* the put counts after the urls of sequence s were put
RECURSIVE Counted(_, _)
Counted(c, s) ==
    IF s = <<>> THEN c
    ELSE LET u == Head(s)
             n == IF u \in DOMAIN c THEN c[u] + 1 ELSE 1
         IN Counted([x \in DOMAIN c \cup {u} |-> IF x = u THEN n ELSE c[x]], Tail(s))

Normalized(s) == [i \in 1..Len(s) |-> normalize_url(s[i])]

Items(s, depth) == [i \in 1..Len(s) |-> <<s[i], depth>>]

\* StealthCrawler.__init__
LocalIdle ==
    /\ queue = <<>>
    /\ unfinished = 0
    /\ visited = {}
    /\ results = <<>>
    /\ running = FALSE
    /\ crawl_pc = "init"
    /\ max_depth_arg = 0
    /\ max_depth = 0
    /\ w_pc = [w \in Workers |-> "none"]
    /\ w_item = [w \in Workers |-> <<>>]
    /\ put_count = <<>>
    /\ stop_requested = FALSE

\* nothing of main.py has been constructed
\* process_url_with_retries line 329: backoff = 2.0
BackoffBase == 2

\* nothing attempted yet: no outcome, no sleep, backoff at its initial value
NoHist == [outcomes |-> <<>>, slept |-> <<>>, backoff |-> BackoffBase, failure_stored |-> FALSE]

MainIdle ==
    /\ urls = <<>>
    /\ max_pages = 0
    /\ retries = 0
    /\ url_cache = {}
    /\ visited_urls = {}
    /\ url_queue = <<>>
    /\ m_unfinished = 0
    /\ m_results = <<>>
    /\ checkpoint = <<>>
    /\ o_pc = "none"
    /\ mw_pc = [w \in Workers |-> "none"]
    /\ mw_url = [w \in Workers |-> <<>>]
    /\ mw_attempt = [w \in Workers |-> 0]
    /\ mw_hist = [w \in Workers |-> NoHist]
    /\ m_put_count = <<>>
    /\ resumed_from = <<>>

\* no distributed crawler has been constructed
DistIdle ==
    /\ d_queue = <<>>
    /\ d_visited = {}
    /\ d_results = <<>>
    /\ d_master_pc = "none"
    /\ d_max_depth_arg = 0
    /\ d_config_depth = ConfigMaxDepth
    /\ d_pc = [w \in Workers |-> "none"]
    /\ d_item = [w \in Workers |-> <<>>]
    /\ d_links = [w \in Workers |-> <<>>]

\* RateLimiter.__init__, lines 28-36
NewRateLimiter(rps, adaptive) ==
    [min_interval |-> Frac(rps[2], rps[1]), current_interval |-> Frac(rps[2], rps[1]),
     error_count |-> 0, success_count |-> 0, adaptive |-> adaptive]

\* history of a limiter nobody has called yet
NoCall(rl) ==
    [op |-> "init", status |-> 0, before |-> rl.current_interval,
     errors_before |-> 0, successes_before |-> 0, reductions |-> 0,
     nth |-> 0, streak |-> 0, nth_run |-> 0, run |-> 0, raised |-> FALSE]

\* the pacer is the one a StealthCrawler builds from the default config, unused
PacerIdle ==
    /\ rl_min_interval = NewRateLimiter(<<ConfigRPS, 1>>, TRUE).min_interval
    /\ rl_current_interval = NewRateLimiter(<<ConfigRPS, 1>>, TRUE).current_interval
    /\ rl_error_count = 0
    /\ rl_success_count = 0
    /\ rl_adaptive = TRUE
    /\ rl_last = NoCall(NewRateLimiter(<<ConfigRPS, 1>>, TRUE))

\* TokenBucketLimiter.__init__, lines 92-98, built at time now
NewTokenBucket(rate, now) ==
    [rate |-> rate, capacity |-> rate, tokens |-> rate, updated_at |-> now]

\* the bucket is the one ReconOrchestrator builds from the default --rate-limit, unused
BucketIdle ==
    /\ tb_rate = NewTokenBucket(ConfigRateLimit, 0).rate
    /\ tb_capacity = NewTokenBucket(ConfigRateLimit, 0).capacity
    /\ tb_tokens = NewTokenBucket(ConfigRateLimit, 0).tokens
    /\ tb_updated_at = NewTokenBucket(ConfigRateLimit, 0).updated_at
    /\ tb_now = 0
    /\ tb_holder = 0
    /\ tb_wake = [w \in Workers |-> 0]
    /\ tb_log = <<>>

\* what load() has returned when it was not called yet
NotLoaded == [called |-> FALSE]

\* the CheckpointManager was built and none of its methods called
CkptIdle ==
    /\ ck_state = <<>>
    /\ ck_file = <<>>
    /\ ck_saved = <<>>
    /\ ck_loaded = NotLoaded

\* ProxyManager.__init__ without a proxy list file
ProxyIdle ==
    /\ px_proxies = <<>>
    /\ px_index = 0
    /\ px_last = <<>>
    /\ px_reports = 0

\* normalize_url has not been called
NormIdle ==
    /\ n_in = None
    /\ n_out = <<>>

\* is_in_scope has not been called
ScopeIdle ==
    /\ s_url = None
    /\ s_decision = <<>>
    /\ s_test = <<>>

InitLocal ==
    /\ variant \in {"HEAD", "main"}
    /\ \E sc \in LocalScenarios :
        /\ web = sc[1]
        /\ scope_manager = create_scope_manager(sc[2][1], sc[2][2])
    /\ LocalIdle
    /\ MainIdle
    /\ DistIdle
    /\ ScopeIdle
    /\ PacerIdle
    /\ BucketIdle
    /\ ProxyIdle
    /\ NormIdle
    /\ CkptIdle

\* crawl(), lines 145-161: seeds are queued and the workers are created
CrawlStart(start_urls, md) ==
    /\ crawl_pc = "init"
    /\ LET puts == SelectSeq(Normalized(start_urls), SeedAccepted)
       IN /\ queue' = queue \o Items(puts, 0)
          /\ unfinished' = unfinished + Len(puts)
          /\ put_count' = Counted(put_count, puts)
    /\ max_depth_arg' = md
    /\ max_depth' = EffectiveMaxDepth(md)
    /\ running' = TRUE
    /\ w_pc' = [w \in Workers |-> "new"]
    /\ crawl_pc' = "join"
    /\ UNCHANGED <<notLocal, variant, scope_manager, visited, results, w_item, stop_requested>>

\* _worker: the task runs for the first time
WStart(w) ==
    /\ w_pc[w] = "new"
    /\ w_pc' = [w_pc EXCEPT ![w] = LoopTop]
    /\ UNCHANGED <<notLocal, variant, scope_manager, queue, unfinished, visited, results, running,
                   crawl_pc, max_depth_arg, max_depth, w_item, put_count, stop_requested>>

\* _worker, lines 183-190: an item is dequeued; skipped if visited, else marked
WGet(w) ==
    /\ w_pc[w] = "get"
    /\ queue # <<>>
    /\ queue' = Tail(queue)
    /\ IF AlreadyVisited(Head(queue)[1])
       THEN /\ unfinished' = AckSkip(unfinished)
            /\ w_pc' = [w_pc EXCEPT ![w] = LoopTop]
            /\ UNCHANGED <<visited, w_item>>
       ELSE /\ visited' = visited \cup {Head(queue)[1]}
            /\ w_item' = [w_item EXCEPT ![w] = Head(queue)]
            /\ w_pc' = [w_pc EXCEPT ![w] = "fetch"]
            /\ UNCHANGED unfinished
    /\ UNCHANGED <<notLocal, variant, scope_manager, results, running, crawl_pc,
                   max_depth_arg, max_depth, put_count, stop_requested>>

\* _worker, lines 211-212 and 180: get() times out and the loop sees running = False
WTimeout(w) ==
    /\ w_pc[w] = "get"
    /\ queue = <<>>
    /\ ~running
    /\ w_pc' = [w_pc EXCEPT ![w] = "stopped"]
    /\ UNCHANGED <<notLocal, variant, scope_manager, queue, unfinished, visited, results, running,
                   crawl_pc, max_depth_arg, max_depth, w_item, put_count, stop_requested>>

\* _worker, lines 193-209: the fetch returns; record, follow links, acknowledge
WFetch(w, outcome) ==
    /\ w_pc[w] = "fetch"
    /\ outcome \in OutcomesOf(w_item[w][1])
    /\ LET r == crawl_page(w_item[w][1], w_item[w][2], outcome)
       IN /\ results' = Append(results, Stored(r))
          /\ \E order \in Perms(r.links) :
               LET puts == IF FollowLinks(r, max_depth)
                           THEN SelectSeq(Normalized(order), LinkAccepted)
                           ELSE <<>>
               IN /\ queue' = queue \o Items(puts, r.depth + 1)
                  /\ unfinished' = AckDone(unfinished + Len(puts))
                  /\ put_count' = Counted(put_count, puts)
    /\ w_item' = [w_item EXCEPT ![w] = <<>>]
    /\ w_pc' = [w_pc EXCEPT ![w] = LoopTop]
    /\ UNCHANGED <<notLocal, variant, scope_manager, visited, running, crawl_pc,
                   max_depth_arg, max_depth, stop_requested>>

\* api_server.stop_crawl, lines 220-221: a running crawl is told to stop
Stop ==
    /\ crawl_pc = "join"
    /\ running
    /\ running' = FALSE
    /\ stop_requested' = TRUE
    /\ UNCHANGED <<notLocal, variant, scope_manager, queue, unfinished, visited, results,
                   crawl_pc, max_depth_arg, max_depth, w_pc, w_item, put_count>>

\* crawl(), lines 164-174: join() returns, the workers are cancelled and gathered
CrawlReturn ==
    /\ crawl_pc = "join"
    /\ unfinished = 0
    /\ running' = FALSE
    /\ w_pc' = [w \in Workers |-> "stopped"]
    /\ crawl_pc' = "done"
    /\ UNCHANGED <<notLocal, variant, scope_manager, queue, unfinished, visited, results,
                   max_depth_arg, max_depth, w_item, put_count, stop_requested>>

CrawlStartAny ==
    \E start_urls \in SeqsUpTo(SeedURLs, MaxSeeds) \ {<<>>}, md \in 0..MaxDepthArg :
        CrawlStart(start_urls, md)

WStartAny == \E w \in Workers : WStart(w)
WGetAny == \E w \in Workers : WGet(w)
WTimeoutAny == \E w \in Workers : WTimeout(w)
WFetchAny == \E w \in Workers, outcome \in Outcomes : WFetch(w, outcome)

NextNoStop ==
    \/ CrawlStartAny
    \/ WStartAny
    \/ WGetAny
    \/ WFetchAny
    \/ CrawlReturn

NextLocal ==
    \/ CrawlStartAny
    \/ WStartAny
    \/ WGetAny
    \/ WTimeoutAny
    \/ WFetchAny
    \/ Stop
    \/ CrawlReturn

LocalFairness ==
    /\ WF_vars(CrawlStartAny)
    /\ WF_vars(CrawlReturn)
    /\ \A w \in Workers :
        /\ WF_vars(WStart(w))
        /\ WF_vars(WGet(w))
        /\ WF_vars(WTimeout(w))
        /\ WF_vars(\E outcome \in Outcomes : WFetch(w, outcome))

\* a crawl that nobody stops
SpecNoStop == InitLocal /\ [][NextNoStop]_vars
FairNoStop == SpecNoStop /\ LocalFairness

\* a crawl that DELETE /crawl/{id} may stop
SpecLocal == InitLocal /\ [][NextLocal]_vars

\* StealthCrawler.__init__ in front of the site with two routes to /b
InitDiamond ==
    /\ variant \in {"HEAD", "main"}
    /\ web = "diamond"
    /\ scope_manager = create_scope_manager(VariantScope[1], VariantScope[2])
    /\ LocalIdle
    /\ MainIdle
    /\ DistIdle
    /\ ScopeIdle
    /\ PacerIdle
    /\ BucketIdle
    /\ ProxyIdle
    /\ NormIdle
    /\ CkptIdle

\* a crawl of that site that nobody stops
SpecDiamond == InitDiamond /\ [][NextNoStop]_vars
FairLocal == SpecLocal /\ LocalFairness

----------------------------------------------------------------------------
(* CLI orchestrator, main.py: CrawlState, ReconOrchestrator *)

\* a root url written with a doubled slash: the HEAD normaliser strips its path
RawRootSlashes == URL(HostS, "", <<"/", "/">>, <<>>, "")

\* a host two labels below example.com
PageDeep == URL(<<"x", "y", "example", "com">>, "", <<"/">>, <<>>, "")

\* urls given on the command line
MainSeedURLs == {RawRootSlashes, RawAFrag, PageAdmin, PageDeep}

\* --in-scope / --out-scope given on the command line
MainScope == << << <<"*", "example", "com">> >>, << <<"ADMIN", "example", "com">> >> >>

\* lines an earlier run of the same build can have left in visited_urls.txt
CacheLines == {normalize_url(RawRootSlashes)}

\* page.url after goto: the one redirect of the web
FinalURL(u) == IF u = PageC THEN PageB ELSE u

\* content_extractor.extract_links with the orchestrator's scope manager:
\* the canonical in-scope links of the page
links_in_scope(url) ==
    {l \in extract_links(url) : is_in_scope(scope_manager, l)}

\* how handle_crawl can end: returns; raises before anything is stored;
\* raises in context.close() / browser.close() after the result is stored
MOutcomes == {"ok", "raise", "raise_on_close"}

\* the outcomes the browser can produce for each page of the web
MOutcomesOf(u) ==
    CASE u = PageA -> MOutcomes
      [] u = PageB -> {"ok", "raise"}
      [] OTHER -> {"ok"}

CrawlStateOf ==
    [visited_urls |-> visited_urls, url_cache |-> url_cache, url_queue |-> url_queue,
     unfinished |-> m_unfinished, put_count |-> m_put_count]

\* the membership test of enqueue left out
EnqueueAdmits_always(st, url) == TRUE

\* CrawlState.enqueue, line 180
EnqueueAdmits(st, url) == url \notin st.visited_urls /\ url \notin st.url_cache

\* CrawlState.enqueue: one uninterrupted step (put on an unbounded queue never suspends)
enqueue(st, url0) ==
    LET url == normalize_url(url0)
    IN IF EnqueueAdmits(st, url)
       THEN [visited_urls |-> st.visited_urls \cup {url},
             url_cache |-> st.url_cache \cup {url},
             url_queue |-> Append(st.url_queue, url),
             unfinished |-> st.unfinished + 1,
             put_count |-> Counted(st.put_count, <<url>>)]
       ELSE st

\* crawl_main lines 240-248: the seed loop
RECURSIVE EnqueueSeeds(_, _)
EnqueueSeeds(st, s) ==
    IF s = <<>> THEN st
    ELSE LET normalized == normalize_url(Head(s))
         IN EnqueueSeeds(IF is_in_scope(scope_manager, normalized)
                         THEN enqueue(st, normalized) ELSE st, Tail(s))

\* handle_crawl lines 452-454: the link loop
RECURSIVE EnqueueLinks(_, _)
EnqueueLinks(st, s) ==
    IF s = <<>> THEN st
    ELSE EnqueueLinks(IF Head(s) \notin st.visited_urls /\ Head(s) \notin st.url_cache
                      THEN enqueue(st, Head(s)) ELSE st, Tail(s))

\* the record handle_crawl stores, and the one stored after the last retry
PageRecord(u) == [url |-> u, error |-> FALSE]
FailureRecord(u) == [url |-> u, error |-> TRUE]

\* self.state.results[k] = r
DictSet(dict, k, r) == [x \in DOMAIN dict \cup {k} |-> IF x = k THEN r ELSE dict[x]]

\* urls are left out of visited_urls while they wait in the queue
Snapshot_unmarked(vis, q, res) ==
    [visited_urls |-> vis \ Range(q), queue |-> q, results |-> res]

\* CrawlState.save_checkpoint: the dict handed to the checkpoint manager
Snapshot(vis, q, res) == [visited_urls |-> vis, queue |-> q, results |-> res]

\* CrawlState.__init__ and ReconOrchestrator.__init__
InitMain ==
    /\ variant \in {"HEAD", "main"}
    /\ web = "site"
    /\ scope_manager = create_scope_manager(MainScope[1], MainScope[2])
    /\ LocalIdle
    /\ DistIdle
    /\ ScopeIdle
    /\ PacerIdle
    /\ BucketIdle
    /\ ProxyIdle
    /\ NormIdle
    /\ CkptIdle
    /\ urls = <<>>
    /\ max_pages = 0
    /\ retries = 0
    /\ url_cache \in SUBSET CacheLines
    /\ visited_urls = {normalize_url(u) : u \in url_cache}
    /\ url_queue = <<>>
    /\ m_unfinished = 0
    /\ m_results = <<>>
    /\ checkpoint = <<>>
    /\ o_pc = "init"
    /\ mw_pc = [w \in Workers |-> "none"]
    /\ mw_url = [w \in Workers |-> <<>>]
    /\ mw_attempt = [w \in Workers |-> 0]
    /\ mw_hist = [w \in Workers |-> NoHist]
    /\ m_put_count = <<>>
    /\ resumed_from = <<>>

\* the fatal check left out
NoURLsQueued_never(st) == FALSE

\* crawl_main line 253: if self.state.url_queue.qsize() == 0
NoURLsQueued(st) == st.url_queue = <<>>

\* crawl_main lines 237-271: seeds, the fatal check, the workers are created
OStart(start_urls, mp, rt) ==
    /\ o_pc = "init"
    /\ urls' = start_urls
    /\ max_pages' = mp
    /\ retries' = rt
    /\ LET st == EnqueueSeeds(CrawlStateOf, start_urls)
       IN /\ visited_urls' = st.visited_urls
          /\ url_cache' = st.url_cache
          /\ url_queue' = st.url_queue
          /\ m_unfinished' = st.unfinished
          /\ m_put_count' = st.put_count
          /\ IF NoURLsQueued(st)
             THEN o_pc' = "fatal" /\ UNCHANGED mw_pc
             ELSE o_pc' = "loop" /\ mw_pc' = [w \in Workers |-> "get"]
    /\ UNCHANGED <<notMain, variant, scope_manager, resumed_from, m_results, checkpoint, mw_url, mw_attempt,
                   mw_hist>>

\* crawl_main lines 279-282: the polling loop ends on the page cap or an empty queue
OLoopExit ==
    /\ o_pc = "loop"
    /\ Cardinality(DOMAIN m_results) >= max_pages \/ url_queue = <<>>
    /\ o_pc' = "join"
    /\ UNCHANGED <<notMain, variant, scope_manager, resumed_from, urls, max_pages, retries, url_cache,
                   visited_urls, url_queue, m_unfinished, m_results, checkpoint,
                   mw_pc, mw_url, mw_attempt, mw_hist, m_put_count>>

\* crawl_main lines 285-292: join() returns, workers are cancelled
OJoin ==
    /\ o_pc = "join"
    /\ m_unfinished = 0
    /\ o_pc' = "done"
    /\ mw_pc' = [w \in Workers |-> IF mw_pc[w] = "exited" THEN "exited" ELSE "cancelled"]
    /\ UNCHANGED <<notMain, variant, scope_manager, resumed_from, urls, max_pages, retries, url_cache,
                   visited_urls, url_queue, m_unfinished, m_results, checkpoint,
                   mw_url, mw_attempt, mw_hist, m_put_count>>

\* worker line 316: a url is dequeued
MGet(w) ==
    /\ mw_pc[w] = "get"
    /\ url_queue # <<>>
    /\ url_queue' = Tail(url_queue)
    /\ mw_url' = [mw_url EXCEPT ![w] = Head(url_queue)]
    /\ mw_attempt' = [mw_attempt EXCEPT ![w] = 0]
    /\ mw_hist' = [mw_hist EXCEPT ![w] = NoHist]
    /\ mw_pc' = [mw_pc EXCEPT ![w] = "proc"]
    /\ UNCHANGED <<notMain, variant, scope_manager, resumed_from, urls, max_pages, retries, url_cache,
                   visited_urls, m_unfinished, m_results, checkpoint, o_pc, m_put_count>>

\* worker lines 317-319: get() timed out and the queue is empty
MExit(w) ==
    /\ mw_pc[w] = "get"
    /\ url_queue = <<>>
    /\ mw_pc' = [mw_pc EXCEPT ![w] = "exited"]
    /\ UNCHANGED <<notMain, variant, scope_manager, resumed_from, urls, max_pages, retries, url_cache,
                   visited_urls, url_queue, m_unfinished, m_results, checkpoint, o_pc,
                   mw_url, mw_attempt, mw_hist, m_put_count>>

\* one attempt more than range(retries + 1) allows
LastAttempt_extra(raised, attempt, rt) == ~raised \/ attempt > rt

\* process_url_with_retries lines 330-338: break on success, or the range is used up
LastAttempt(raised, attempt, rt) == ~raised \/ attempt >= rt

\* process_url_with_retries, one attempt (lines 330-345), and when it was the
\* last one the rest of worker (lines 323-326): checkpoint by worker 0, task_done
MAttempt(w, outcome) ==
    /\ mw_pc[w] = "proc"
    /\ outcome \in MOutcomesOf(mw_url[w])
    /\ \E order \in Perms(IF outcome # "raise" THEN links_in_scope(FinalURL(mw_url[w])) ELSE {}) :
       LET url == mw_url[w]
           stored == outcome # "raise"
           raised == outcome # "ok"
           last == LastAttempt(raised, mw_attempt[w], retries)
           st == IF stored THEN EnqueueLinks(CrawlStateOf, order) ELSE CrawlStateOf
           res1 == IF stored THEN DictSet(m_results, FinalURL(url), PageRecord(FinalURL(url)))
                   ELSE m_results
           res2 == IF raised /\ last THEN DictSet(res1, url, FailureRecord(url)) ELSE res1
       IN /\ visited_urls' = st.visited_urls
          /\ url_cache' = st.url_cache
          /\ url_queue' = st.url_queue
          /\ m_put_count' = st.put_count
          /\ m_results' = res2
          /\ IF last
             THEN /\ m_unfinished' = st.unfinished - 1
                  /\ mw_pc' = [mw_pc EXCEPT ![w] = "get"]
                  /\ mw_url' = [mw_url EXCEPT ![w] = <<>>]
                  /\ mw_attempt' = [mw_attempt EXCEPT ![w] = 0]
                  /\ mw_hist' = [mw_hist EXCEPT ![w].outcomes = Append(@, outcome),
                                                ![w].failure_stored = raised]
                  /\ checkpoint' = IF w = 1
                                   THEN Snapshot(st.visited_urls, st.url_queue, res2)
                                   ELSE checkpoint
             ELSE /\ m_unfinished' = st.unfinished
                  /\ mw_attempt' = [mw_attempt EXCEPT ![w] = @ + 1]
                  /\ mw_hist' = [mw_hist EXCEPT ![w].outcomes = Append(@, outcome),
                                                ![w].slept = Append(@, mw_hist[w].backoff),
                                                ![w].backoff = @ * 2]
                  /\ UNCHANGED <<mw_pc, mw_url, checkpoint>>
    /\ UNCHANGED <<notMain, variant, scope_manager, resumed_from, urls, max_pages, retries, o_pc>>

OStartAny ==
    \E start_urls \in SeqsUpTo(MainSeedURLs, MaxSeeds) \ {<<>>},
       mp \in 1..MaxPagesArg, rt \in 0..MaxRetries :
        OStart(start_urls, mp, rt)

MGetAny == \E w \in Workers : MGet(w)
MExitAny == \E w \in Workers : MExit(w)
MAttemptAny ==
    \E w \in Workers, outcome \in MOutcomes : MAttempt(w, outcome)

NextMain ==
    \/ OStartAny
    \/ OLoopExit
    \/ OJoin
    \/ MGetAny
    \/ MExitAny
    \/ MAttemptAny

SpecMain == InitMain /\ [][NextMain]_vars

\* main, lines 550-551: for url in state_data.get("queue", []): enqueue(url)
RECURSIVE EnqueueEach(_, _)
EnqueueEach(st, s) ==
    IF s = <<>> THEN st ELSE EnqueueEach(enqueue(st, Head(s)), Tail(s))

\* main, the "resume" command (lines 536-554), run in a new process after the
\* crawl that wrote the snapshot has stopped.  pkl: a file checkpoints/<id>.pkl
\* exists (save_checkpoint writes checkpoints/<id>.json).  order: the order of
\* list(set(queue)).  The url cache is the file visited_urls.txt and outlives
\* the process; everything else of CrawlState is built anew.
Resume(pkl, order) ==
    /\ o_pc \in {"loop", "join", "done"}
    /\ checkpoint # <<>>
    /\ resumed_from = <<>>
    /\ resumed_from' = checkpoint
    /\ m_results' = <<>>
    /\ mw_url' = [w \in Workers |-> <<>>]
    /\ mw_attempt' = [w \in Workers |-> 0]
    /\ mw_hist' = [w \in Workers |-> NoHist]
    /\ IF ~pkl
       THEN /\ o_pc' = "resume_notfound"
            /\ mw_pc' = [w \in Workers |-> "none"]
            /\ visited_urls' = {}
            /\ url_queue' = <<>>
            /\ m_unfinished' = 0
            /\ m_put_count' = <<>>
            /\ UNCHANGED <<urls, url_cache>>
       ELSE LET fresh == [visited_urls |-> checkpoint.visited_urls,
                          url_cache |-> url_cache,
                          url_queue |-> <<>>,
                          unfinished |-> 0,
                          put_count |-> <<>>]
                restored == EnqueueEach(fresh, checkpoint.queue)
                st == EnqueueSeeds(restored, order)
            IN /\ urls' = order
               /\ visited_urls' = st.visited_urls
               /\ url_cache' = st.url_cache
               /\ url_queue' = st.url_queue
               /\ m_unfinished' = st.unfinished
               /\ m_put_count' = st.put_count
               /\ IF NoURLsQueued(st)
                  THEN o_pc' = "fatal" /\ mw_pc' = [w \in Workers |-> "none"]
                  ELSE o_pc' = "loop" /\ mw_pc' = [w \in Workers |-> "get"]
    /\ UNCHANGED <<notMain, variant, scope_manager, max_pages, retries, checkpoint>>

ResumeAny ==
    /\ checkpoint # <<>>
    /\ \E pkl \in BOOLEAN, order \in Perms(Range(checkpoint.queue)) : Resume(pkl, order)

NextResume ==
    \/ OStartAny
    \/ OLoopExit
    \/ OJoin
    \/ MGetAny
    \/ MExitAny
    \/ MAttemptAny
    \/ ResumeAny

SpecResume == InitMain /\ [][NextResume]_vars

----------------------------------------------------------------------------
(* Redis-coordinated crawl, distributed.py.  Every Redis call is one step. *)

\* urls given to run_master
DistSeedURLs == {PageRoot, RawAFrag}

\* the scope manager of the embedded crawler: ScopeManager() unless one is assigned
DistScopes == {NewScopeManager,
               create_scope_manager(<< <<"*", "example", "com">> >>, <<>>)}

\* ScopeManager.filter_urls
filter_urls(sm, S) == {u \in S : is_in_scope(sm, u)}

\* the outcomes the fetcher can produce for each page in the distributed runs
DistOutcomesOf(u) == IF u = PageRoot THEN {"ok", "exc_goto"} ELSE {"ok"}

\* run_worker line 238
DistFollowLinks(r) == r.success /\ r.depth < d_config_depth

\* add_urls lines 96-99: sismember on the visited set
IsVisited(url) == url \in d_visited

InitDist ==
    /\ variant \in {"HEAD", "main"}
    /\ web = "site"
    /\ scope_manager \in DistScopes
    /\ LocalIdle
    /\ MainIdle
    /\ ScopeIdle
    /\ PacerIdle
    /\ BucketIdle
    /\ ProxyIdle
    /\ NormIdle
    /\ CkptIdle
    /\ d_queue = <<>>
    /\ d_visited = {}
    /\ d_results = <<>>
    /\ d_master_pc = "init"
    /\ d_max_depth_arg = 0
    /\ d_config_depth \in 0..MaxDepthArg
    /\ d_pc = [w \in Workers |-> "none"]
    /\ d_item = [w \in Workers |-> <<>>]
    /\ d_links = [w \in Workers |-> <<>>]

\* run_master: the keys are cleared and every start url is pushed at depth 0
\* (the visited set was just deleted, so sismember is false for each)
DMaster(start_urls, md) ==
    /\ d_master_pc = "init"
    /\ d_queue' = [i \in 1..Len(start_urls) |-> [url |-> start_urls[i], depth |-> 0]]
    /\ d_visited' = {}
    /\ d_results' = <<>>
    /\ d_max_depth_arg' = md
    /\ d_master_pc' = "done"
    /\ d_pc' = [w \in Workers |-> "get"]
    /\ UNCHANGED <<notDist, variant, scope_manager, d_config_depth, d_item, d_links>>

\* run_worker line 216, get_url: blpop returns an item
DGet(w) ==
    /\ d_pc[w] = "get"
    /\ d_queue # <<>>
    /\ d_queue' = Tail(d_queue)
    /\ d_item' = [d_item EXCEPT ![w] = Head(d_queue)]
    /\ d_pc' = [d_pc EXCEPT ![w] = "mark"]
    /\ UNCHANGED <<notDist, variant, scope_manager, d_visited, d_results, d_master_pc,
                   d_max_depth_arg, d_config_depth, d_links>>

\* run_worker line 216, get_url: blpop times out
DTimeout(w) ==
    /\ d_pc[w] = "get"
    /\ d_queue = <<>>
    /\ d_pc' = [d_pc EXCEPT ![w] = "size"]
    /\ UNCHANGED <<notDist, variant, scope_manager, d_queue, d_visited, d_results,
                   d_master_pc, d_max_depth_arg, d_config_depth, d_item, d_links>>

\* run_worker lines 220-224: llen decides between stopping and polling again
DQueueSize(w) ==
    /\ d_pc[w] = "size"
    /\ d_pc' = [d_pc EXCEPT ![w] = IF Len(d_queue) = 0 THEN "stopped" ELSE "get"]
    /\ UNCHANGED <<notDist, variant, scope_manager, d_queue, d_visited, d_results,
                   d_master_pc, d_max_depth_arg, d_config_depth, d_item, d_links>>

\* run_worker line 229, mark_visited: sadd
DMark(w) ==
    /\ d_pc[w] = "mark"
    /\ d_visited' = d_visited \cup {d_item[w].url}
    /\ d_pc' = [d_pc EXCEPT ![w] = "crawl"]
    /\ UNCHANGED <<notDist, variant, scope_manager, d_queue, d_results, d_master_pc,
                   d_max_depth_arg, d_config_depth, d_item, d_links>>

\* run_worker lines 232-240: the page is fetched, the result is pushed to the
\* results list and the links to offer are filtered
DCrawl(w, outcome) ==
    /\ d_pc[w] = "crawl"
    /\ outcome \in DistOutcomesOf(d_item[w].url)
    /\ LET r == crawl_page(d_item[w].url, d_item[w].depth, outcome)
       IN /\ d_results' = Append(d_results, Stored(r))
          /\ IF DistFollowLinks(r) /\ filter_urls(scope_manager, r.links) # {}
             THEN /\ \E order \in Perms(filter_urls(scope_manager, r.links)) :
                        d_links' = [d_links EXCEPT ![w] = order]
                  /\ d_pc' = [d_pc EXCEPT ![w] = "add"]
                  /\ UNCHANGED d_item
             ELSE /\ d_pc' = [d_pc EXCEPT ![w] = "get"]
                  /\ d_item' = [d_item EXCEPT ![w] = <<>>]
                  /\ UNCHANGED d_links
    /\ UNCHANGED <<notDist, variant, scope_manager, d_queue, d_visited, d_master_pc,
                   d_max_depth_arg, d_config_depth>>

\* after the last link of add_urls the worker loops back to get_url
AfterLink(w, rest) ==
    /\ d_links' = [d_links EXCEPT ![w] = rest]
    /\ IF rest = <<>>
       THEN d_pc' = [d_pc EXCEPT ![w] = "get"] /\ d_item' = [d_item EXCEPT ![w] = <<>>]
       ELSE d_pc' = [d_pc EXCEPT ![w] = "add"] /\ UNCHANGED d_item

\* add_urls lines 96-99: sismember for the next link; a visited link is dropped
DAddCheck(w) ==
    /\ d_pc[w] = "add"
    /\ IF IsVisited(Head(d_links[w]))
       THEN AfterLink(w, Tail(d_links[w]))
       ELSE d_pc' = [d_pc EXCEPT ![w] = "push"] /\ UNCHANGED <<d_links, d_item>>
    /\ UNCHANGED <<notDist, variant, scope_manager, d_queue, d_visited, d_results,
                   d_master_pc, d_max_depth_arg, d_config_depth>>

\* add_urls lines 101-103: rpush of the link at depth + 1
DAddPush(w) ==
    /\ d_pc[w] = "push"
    /\ d_queue' = Append(d_queue, [url |-> Head(d_links[w]), depth |-> d_item[w].depth + 1])
    /\ AfterLink(w, Tail(d_links[w]))
    /\ UNCHANGED <<notDist, variant, scope_manager, d_visited, d_results,
                   d_master_pc, d_max_depth_arg, d_config_depth>>

DMasterAny ==
    \E start_urls \in SeqsUpTo(DistSeedURLs, MaxSeeds) \ {<<>>}, md \in 0..MaxDepthArg :
        DMaster(start_urls, md)

DGetAny == \E w \in Workers : DGet(w)
DTimeoutAny == \E w \in Workers : DTimeout(w)
DQueueSizeAny == \E w \in Workers : DQueueSize(w)
DMarkAny == \E w \in Workers : DMark(w)
DCrawlAny == \E w \in Workers, outcome \in Outcomes : DCrawl(w, outcome)
DAddCheckAny == \E w \in Workers : DAddCheck(w)
DAddPushAny == \E w \in Workers : DAddPush(w)

NextDist ==
    \/ DMasterAny
    \/ DGetAny
    \/ DTimeoutAny
    \/ DQueueSizeAny
    \/ DMarkAny
    \/ DCrawlAny
    \/ DAddCheckAny
    \/ DAddPushAny

SpecDist == InitDist /\ [][NextDist]_vars

\* urls an operator may hand to run_master: any url, in scope or not
AnySeedURLs == {PageRoot, PageEvil}

DMasterAnySeed ==
    \E start_urls \in SeqsUpTo(AnySeedURLs, MaxSeeds) \ {<<>>}, md \in 0..MaxDepthArg :
        DMaster(start_urls, md)

\* the distributed crawl started from any seeds
NextAnySeed ==
    \/ DMasterAnySeed
    \/ DGetAny
    \/ DTimeoutAny
    \/ DQueueSizeAny
    \/ DMarkAny
    \/ DCrawlAny
    \/ DAddCheckAny
    \/ DAddPushAny

SpecAnySeed == InitDist /\ [][NextAnySeed]_vars

\* get_url lines 119-132 while Redis is unreachable: blpop raises, the except
\* branch logs and get_url returns None, whatever the queue holds
DGetFails(w) ==
    /\ d_pc[w] = "get"
    /\ d_pc' = [d_pc EXCEPT ![w] = "size"]
    /\ UNCHANGED <<notDist, variant, scope_manager, d_queue, d_visited, d_results,
                   d_master_pc, d_max_depth_arg, d_config_depth, d_item, d_links>>

\* get_queue_size lines 166-172 while Redis is unreachable: llen raises, the
\* except branch returns 0 and run_worker (lines 221-224) breaks out of its loop
DQueueSizeFails(w) ==
    /\ d_pc[w] = "size"
    /\ d_pc' = [d_pc EXCEPT ![w] = "stopped"]
    /\ UNCHANGED <<notDist, variant, scope_manager, d_queue, d_visited, d_results,
                   d_master_pc, d_max_depth_arg, d_config_depth, d_item, d_links>>

DGetFailsAny == \E w \in Workers : DGetFails(w)
DQueueSizeFailsAny == \E w \in Workers : DQueueSizeFails(w)

\* the distributed crawl with a Redis server that may be unreachable at any call
\* of get_url or get_queue_size
NextOutage ==
    \/ DMasterAny
    \/ DGetAny
    \/ DTimeoutAny
    \/ DQueueSizeAny
    \/ DMarkAny
    \/ DCrawlAny
    \/ DAddCheckAny
    \/ DAddPushAny
    \/ DGetFailsAny
    \/ DQueueSizeFailsAny

SpecOutage == InitDist /\ [][NextOutage]_vars

----------------------------------------------------------------------------
(* The scope engine on its own: patterns are added to a fresh ScopeManager *)
(* and urls are decided.                                                   *)

\* patterns a caller may add
ScopePatterns ==
    {<<"ADMIN", "example", "com">>, <<"*", "example", "com">>, <<"**", "example", "com">>,
     <<"example", "com">>, <<"evil", "org">>}

\* urls a caller may ask about
ScopeURLs ==
    {PageAdmin, PageRoot, PageEvil,
     URL(HostAdmin, "8443", <<"/">>, <<>>, ""),
     URL(<<"ADMIN", "example", "com">>, "443", <<>>, <<>>, ""),
     URL(<<"x", "y", "example", "com">>, "", <<"/">>, <<>>, ""),
     URL(<<"_dmarc", "example", "com">>, "", <<"/">>, <<>>, ""),
     URL(<<"example", "com">>, "", <<"/">>, <<>>, "")}

InitScope ==
    /\ variant \in {"HEAD", "main"}
    /\ web = "site"
    /\ scope_manager = NewScopeManager
    /\ LocalIdle
    /\ MainIdle
    /\ DistIdle
    /\ ScopeIdle
    /\ PacerIdle
    /\ BucketIdle
    /\ ProxyIdle
    /\ NormIdle
    /\ CkptIdle

\* ScopeManager.add_in_scope
AddInScope(pattern) ==
    /\ Len(scope_manager.in_scope_patterns) < MaxPatterns
    /\ scope_manager' = add_in_scope(scope_manager, pattern)
    /\ s_url' = None
    /\ s_decision' = <<>>
    /\ s_test' = <<>>
    /\ UNCHANGED <<notScope, variant>>

\* ScopeManager.add_out_of_scope
AddOutOfScope(pattern) ==
    /\ Len(scope_manager.out_of_scope_patterns) < MaxPatterns
    /\ scope_manager' = add_out_of_scope(scope_manager, pattern)
    /\ s_url' = None
    /\ s_decision' = <<>>
    /\ s_test' = <<>>
    /\ UNCHANGED <<notScope, variant>>

\* ScopeManager.is_in_scope
IsInScope(url) ==
    /\ s_url' = url
    /\ s_decision' = <<is_in_scope(scope_manager, url)>>
    /\ s_test' = <<>>
    /\ UNCHANGED <<notScope, variant, scope_manager>>

\* ScopeManager.test_url
TestUrl(url) ==
    /\ s_url' = url
    /\ s_decision' = <<>>
    /\ s_test' = <<test_url(scope_manager, url)>>
    /\ UNCHANGED <<notScope, variant, scope_manager>>

AddInScopeAny == \E pattern \in ScopePatterns : AddInScope(pattern)
AddOutOfScopeAny == \E pattern \in ScopePatterns : AddOutOfScope(pattern)
IsInScopeAny == \E url \in ScopeURLs : IsInScope(url)
TestUrlAny == \E url \in ScopeURLs : TestUrl(url)

NextScope ==
    \/ AddInScopeAny
    \/ AddOutOfScopeAny
    \/ IsInScopeAny
    \/ TestUrlAny

SpecScope == InitScope /\ [][NextScope]_vars

----------------------------------------------------------------------------
(* The adaptive pacer on its own, rate_limiter.py RateLimiter.  Intervals   *)
(* are exact fractions of a second.                                        *)

\* requests_per_second a limiter may be built with, as fractions: 2, 10, 1/100
RPSChoices == {<<2, 1>>, <<10, 1>>, <<1, 100>>}

\* status codes a caller may report; 0 stands for None
Statuses == {0, 404, 429, 500, 599, 600}

\* report_error line 65: status_code == 429 or (status_code and 500 <= status_code < 600)
BacksOff(status) == status = 429 \/ (status # 0 /\ 500 <= status /\ status < 600)

\* report_success line 55: the streak that shortens the interval
StreakLength == 10

\* report_error line 66: min(self.error_count, 5)
BackoffExpCap == 5

\* report_error line 67: min(60.0, ...)
IntervalCap == <<60, 1>>

\* report_success line 57: self.current_interval * 0.9
Shorten(interval) == FracMul(interval, <<9, 10>>)

\* report_error lines 66-67
BackedOff(min_interval, error_count) ==
    LET backoff_factor == 2^(IF error_count < BackoffExpCap THEN error_count ELSE BackoffExpCap)
    IN FracMin(IntervalCap, FracMul(min_interval, <<backoff_factor, 1>>))

InitPacer ==
    /\ variant \in {"HEAD", "main"}
    /\ web = "site"
    /\ scope_manager = NewScopeManager
    /\ LocalIdle
    /\ MainIdle
    /\ DistIdle
    /\ ScopeIdle
    /\ BucketIdle
    /\ ProxyIdle
    /\ NormIdle
    /\ CkptIdle
    /\ \E rps \in RPSChoices, adaptive \in BOOLEAN :
        LET rl == NewRateLimiter(rps, adaptive)
        IN /\ rl_min_interval = rl.min_interval
           /\ rl_current_interval = rl.current_interval
           /\ rl_error_count = rl.error_count
           /\ rl_success_count = rl.success_count
           /\ rl_adaptive = rl.adaptive
           /\ rl_last = NoCall(rl)

\* what the history keeps of a call.  streak counts the report_success calls
\* since the last error or reduction, run those since the last error, reduction
\* or reset; nth and nth_run are the place of this call in them (0 if it is
\* not a report_success); raised tells that an error has raised the interval
\* since the limiter was built or reset
Called(op, status, reductions, nth, streak, nth_run, run, raised) ==
    [op |-> op, status |-> status, before |-> rl_current_interval,
     errors_before |-> rl_error_count, successes_before |-> rl_success_count,
     reductions |-> reductions, nth |-> nth, streak |-> streak,
     nth_run |-> nth_run, run |-> run, raised |-> raised]

\* the reduction of report_success only looks at the streak
Reduces_early(adaptive, success_count) == adaptive /\ success_count >= StreakLength - 1

\* report_success line 55: if self.adaptive and self.success_count >= 10
Reduces(adaptive, success_count) == adaptive /\ success_count >= StreakLength

\* RateLimiter.report_success, lines 51-59
ReportSuccess ==
    /\ rl_success_count < MaxSuccesses
    /\ rl_last.streak < MaxSuccesses
    /\ LET success_count == rl_success_count + 1
           reduce == Reduces(rl_adaptive, success_count)
       IN /\ reduce => rl_last.reductions < MaxReductions
          /\ rl_error_count' = 0
          /\ rl_current_interval' =
                IF reduce THEN FracMax(rl_min_interval, Shorten(rl_current_interval))
                ELSE rl_current_interval
          /\ rl_success_count' = IF reduce THEN 0 ELSE success_count
          /\ rl_last' = Called("report_success", 0,
                               IF reduce THEN rl_last.reductions + 1 ELSE rl_last.reductions,
                               rl_last.streak + 1, IF reduce THEN 0 ELSE rl_last.streak + 1,
                               rl_last.run + 1, IF reduce THEN 0 ELSE rl_last.run + 1,
                               rl_last.raised)
    /\ UNCHANGED <<notPacer, variant, scope_manager, rl_min_interval, rl_adaptive>>

\* RateLimiter.report_error, lines 61-68
ReportError(status) ==
    /\ rl_error_count < MaxErrors
    /\ rl_error_count' = rl_error_count + 1
    /\ rl_success_count' = 0
    /\ rl_current_interval' =
          IF BacksOff(status) THEN BackedOff(rl_min_interval, rl_error_count + 1)
          ELSE rl_current_interval
    /\ rl_last' = Called("report_error", status,
                         IF BacksOff(status) THEN 0 ELSE rl_last.reductions, 0, 0, 0, 0,
                         rl_last.raised \/ BacksOff(status))
    /\ UNCHANGED <<notPacer, variant, scope_manager, rl_min_interval, rl_adaptive>>

\* RateLimiter.reset, lines 70-75
Reset ==
    /\ rl_current_interval' = rl_min_interval
    /\ rl_error_count' = 0
    /\ rl_success_count' = 0
    /\ rl_last' = Called("reset", 0, 0, 0, rl_last.streak, 0, 0, FALSE)
    /\ UNCHANGED <<notPacer, variant, scope_manager, rl_min_interval, rl_adaptive>>

ReportErrorAny == \E status \in Statuses : ReportError(status)

NextPacer ==
    \/ ReportSuccess
    \/ ReportErrorAny
    \/ Reset

SpecPacer == InitPacer /\ [][NextPacer]_vars

----------------------------------------------------------------------------
(* The token bucket on its own, rate_limiter.py TokenBucketLimiter, with   *)
(* several coroutines calling acquire().  Time advances in ticks.          *)

\* rates a bucket may be built with
RateChoices == {1, 2}

\* the refill is added without the min() against capacity
Refilled_uncapped(tokens, updated_at, now) ==
    LET elapsed == now - updated_at
        refill == (elapsed * tb_rate) \div TicksPerSecond
    IN [tokens |-> tokens + refill, updated_at |-> IF refill > 0 THEN now ELSE updated_at]

\* acquire lines 102-109 and 113-118: tokens and updated_at after the refill at time now
Refilled(tokens, updated_at, now) ==
    LET elapsed == now - updated_at
        refill == (elapsed * tb_rate) \div TicksPerSecond
        capped == IF tokens + refill < tb_capacity THEN tokens + refill ELSE tb_capacity
    IN [tokens |-> capped, updated_at |-> IF refill > 0 THEN now ELSE updated_at]

\* acquire lines 111-112: period / rate * need, rounded up to whole ticks
SleepTicks(tokens) == ((1 - tokens) * TicksPerSecond + tb_rate - 1) \div tb_rate

InitBucket ==
    /\ variant \in {"HEAD", "main"}
    /\ web = "site"
    /\ scope_manager = NewScopeManager
    /\ LocalIdle
    /\ MainIdle
    /\ DistIdle
    /\ ScopeIdle
    /\ PacerIdle
    /\ NormIdle
    /\ CkptIdle
    /\ ProxyIdle
    /\ \E rate \in RateChoices :
        /\ tb_rate = NewTokenBucket(rate, 0).rate
        /\ tb_capacity = NewTokenBucket(rate, 0).capacity
        /\ tb_tokens = NewTokenBucket(rate, 0).tokens
        /\ tb_updated_at = NewTokenBucket(rate, 0).updated_at
    /\ tb_now = 0
    /\ tb_holder = 0
    /\ tb_wake = [w \in Workers |-> 0]
    /\ tb_log = <<>>

\* the clock advances
Tick ==
    /\ tb_now < MaxTime
    /\ tb_now' = tb_now + 1
    /\ UNCHANGED <<notBucket, variant, scope_manager, tb_rate, tb_capacity, tb_tokens,
                   tb_updated_at, tb_holder, tb_wake, tb_log>>

\* the rest of acquire() once the bucket was refilled to r: take a token and
\* leave the lock (lines 119-120), or sleep inside the lock (lines 110-112)
TakeOrSleep(w, r) ==
    /\ tb_updated_at' = r.updated_at
    /\ IF r.tokens < 1
       THEN /\ tb_tokens' = r.tokens
            /\ tb_holder' = w
            /\ tb_wake' = [tb_wake EXCEPT ![w] = tb_now + SleepTicks(r.tokens)]
            /\ UNCHANGED tb_log
       ELSE /\ tb_tokens' = r.tokens - 1
            /\ tb_holder' = 0
            /\ tb_log' = Append(tb_log, tb_now)
            /\ UNCHANGED tb_wake

\* acquire lines 101-109: the lock is free, coroutine w enters and refills
TBAcquire(w) ==
    /\ tb_holder = 0
    /\ TakeOrSleep(w, Refilled(tb_tokens, tb_updated_at, tb_now))
    /\ UNCHANGED <<notBucket, variant, scope_manager, tb_rate, tb_capacity, tb_now>>

\* acquire lines 113-118: the sleep is over, w refills again
TBWake(w) ==
    /\ tb_holder = w
    /\ tb_now >= tb_wake[w]
    /\ TakeOrSleep(w, Refilled(tb_tokens, tb_updated_at, tb_now))
    /\ UNCHANGED <<notBucket, variant, scope_manager, tb_rate, tb_capacity, tb_now>>

TBAcquireAny == \E w \in Workers : TBAcquire(w)
TBWakeAny == \E w \in Workers : TBWake(w)

NextBucket ==
    \/ Tick
    \/ TBAcquireAny
    \/ TBWakeAny

SpecBucket == InitBucket /\ [][NextBucket]_vars

----------------------------------------------------------------------------
(* The normaliser on its own, utils.py normalize_url: a url string is      *)
(* normalised, and the result is normalised again.                         *)

\* url strings a caller may pass
NormHosts == {HostS, <<"S", "example", "com">>}
NormPorts == {"", "443", "8443"}
NormPaths ==
    {<<>>, <<"/">>, <<"/", "/">>, <<"/", "a">>, <<"/", "a", "/">>, <<"/", "/", "a">>,
     <<"/", "a", "/", "/">>}
NormQueries == {<<>>, QueryBA, QueryAB}
NormFrags == {"", "frag"}

NormInputs ==
    {URL(h, po, pa, q, f) : h \in NormHosts, po \in NormPorts, pa \in NormPaths,
                            q \in NormQueries, f \in NormFrags}

InitNorm ==
    /\ variant \in {"HEAD", "main"}
    /\ web = "site"
    /\ scope_manager = NewScopeManager
    /\ LocalIdle
    /\ MainIdle
    /\ DistIdle
    /\ ScopeIdle
    /\ PacerIdle
    /\ BucketIdle
    /\ ProxyIdle
    /\ CkptIdle
    /\ n_in \in NormInputs
    /\ n_out = <<>>

\* normalize_url(url) on the string itself
Normalize ==
    /\ n_out = <<>>
    /\ n_out' = <<normalize_url(n_in)>>
    /\ UNCHANGED <<notNorm, variant, scope_manager, n_in>>

\* normalize_url on what the last call returned
NormalizeAgain ==
    /\ n_out # <<>>
    /\ Len(n_out) < MaxCalls
    /\ n_out' = Append(n_out, normalize_url(Last(n_out)))
    /\ UNCHANGED <<notNorm, variant, scope_manager, n_in>>

NextNorm ==
    \/ Normalize
    \/ NormalizeAgain

SpecNorm == InitNorm /\ [][NextNorm]_vars

----------------------------------------------------------------------------
(* Checkpoints, checkpoint.py.  A Python str, int, bool or dict is written *)
(* as itself; a tuple or a list carries a tag, because json.dump writes    *)
(* both as an array and json.load reads an array back as a list.           *)

Tuple(u, d) == [t |-> "tuple", v |-> <<u, d>>]

IsSequence(x) == "t" \in DOMAIN x

\* json.dump of one queue item
ToJson(x) == IF IsSequence(x) THEN [arr |-> x.v] ELSE x

\* json.load of one queue item
FromJson(j) == IF "arr" \in DOMAIN j THEN [t |-> "list", v |-> j.arr] ELSE j

\* a CrawlResult object; its timestamp is a datetime
CrawlResultObj(u, ok) == [obj |-> "CrawlResult", url |-> u, success |-> ok, timestamp |-> 1]

\* CrawlResult.to_dict, stealth_crawler.py lines 35-47: isoformat() of the timestamp
to_dict(r) == [url |-> r.url, success |-> r.success, timestamp |-> [iso |-> r.timestamp]]

\* hasattr(r, 'to_dict')
HasToDict(r) == "obj" \in DOMAIN r

\* what a caller may pass to create_state_snapshot
CkVisited == SUBSET {PageRoot, PageA}
CkQueueItems == {PageA, PageB, Tuple(PageA, 1), Tuple(PageB, 1)}
CkResults ==
    {<<>>, <<CrawlResultObj(PageRoot, TRUE)>>, <<[url |-> PageRoot, error |-> TRUE]>>}
CkConfigs == {[max_depth |-> MaxDepthArg, in_scope |-> <<"*.example.com">>]}

\* create_state_snapshot, lines 164-174, with list(visited) in the given order
create_state_snapshot(order, q, res, config) ==
    [visited |-> order,
     queue |-> q,
     results |-> [i \in 1..Len(res) |-> IF HasToDict(res[i]) THEN to_dict(res[i]) ELSE res[i]],
     config |-> config,
     stats |-> [visited_count |-> Len(order), queue_size |-> Len(q),
                results_count |-> Len(res)]]

\* save line 47: state['_metadata'] = {...}
WithMetadata(state, name) == DictSet(state, "metadata", [saved_at |-> [iso |-> 1], name |-> name])

\* json.dump writes an empty results list
JsonDump_noresults(state) ==
    [state EXCEPT !.queue = [i \in 1..Len(state.queue) |-> ToJson(state.queue[i])],
                  !.results = <<>>]

\* save line 54: json.dump(state, f, indent=2, default=str)
JsonDump(state) ==
    [state EXCEPT !.queue = [i \in 1..Len(state.queue) |-> ToJson(state.queue[i])]]

\* load line 81: json.load(f)
JsonLoad(j) ==
    [j EXCEPT !.queue = [i \in 1..Len(j.queue) |-> FromJson(j.queue[i])]]

InitCkpt ==
    /\ variant \in {"HEAD", "main"}
    /\ web = "site"
    /\ scope_manager = NewScopeManager
    /\ LocalIdle
    /\ MainIdle
    /\ DistIdle
    /\ ScopeIdle
    /\ PacerIdle
    /\ BucketIdle
    /\ ProxyIdle
    /\ NormIdle
    /\ CkptIdle

\* CheckpointManager.create_state_snapshot
CreateSnapshot(visited_set, q, res, config) ==
    /\ ck_state = <<>>
    /\ \E order \in Perms(visited_set) :
          ck_state' = <<create_state_snapshot(order, q, res, config)>>
    /\ UNCHANGED <<notCkpt, variant, scope_manager, ck_file, ck_saved, ck_loaded>>

\* CheckpointManager.save(name, state); written tells whether open() and
\* json.dump went through
Save(written) ==
    /\ ck_state # <<>>
    /\ ck_saved = <<>>
    /\ ck_state' = <<WithMetadata(ck_state[1], "latest")>>
    /\ ck_file' = IF written THEN <<JsonDump(WithMetadata(ck_state[1], "latest"))>> ELSE ck_file
    /\ ck_saved' = <<written>>
    /\ UNCHANGED <<notCkpt, variant, scope_manager, ck_loaded>>

\* CheckpointManager.load(name)
Load ==
    /\ ~ck_loaded.called
    /\ ck_loaded' = IF ck_file = <<>>
                    THEN [called |-> TRUE, found |-> FALSE]
                    ELSE [called |-> TRUE, found |-> TRUE, state |-> JsonLoad(ck_file[1])]
    /\ UNCHANGED <<notCkpt, variant, scope_manager, ck_state, ck_file, ck_saved>>

CreateSnapshotAny ==
    \E visited_set \in CkVisited, q \in SeqsUpTo(CkQueueItems, MaxSeeds), res \in CkResults,
       config \in CkConfigs :
        CreateSnapshot(visited_set, q, res, config)

SaveAny == \E written \in BOOLEAN : Save(written)

NextCkpt ==
    \/ CreateSnapshotAny
    \/ SaveAny
    \/ Load

SpecCkpt == InitCkpt /\ [][NextCkpt]_vars

----------------------------------------------------------------------------
(* The proxy pool on its own, proxy_manager.py.  health_score is kept in    *)
(* hundredths: 1.0 is 100, the steps are +1 and -10.                        *)

\* ProxyInfo: health_score = 1.0
NewProxy(id) == [id |-> id, health |-> 100]

\* report_failure line 183: if proxy.health_score < 0.2
Unhealthy(health) == health < 20

\* self.proxies.remove(proxy)
Remove(seq, k) == [i \in 1..(Len(seq) - 1) |-> IF i < k THEN seq[i] ELSE seq[i + 1]]

\* ProxyManager.__init__ with a proxy list file: load_proxies adds each line
InitProxy ==
    /\ variant \in {"HEAD", "main"}
    /\ web = "site"
    /\ scope_manager = NewScopeManager
    /\ LocalIdle
    /\ MainIdle
    /\ DistIdle
    /\ ScopeIdle
    /\ PacerIdle
    /\ BucketIdle
    /\ NormIdle
    /\ CkptIdle
    /\ \E n \in 1..MaxProxies : px_proxies = [i \in 1..n |-> NewProxy(i)]
    /\ px_index = 0
    /\ px_last = <<>>
    /\ px_reports = 0

\* get_proxy('round-robin'): None for an empty pool; else proxies[current_index],
\* which raises IndexError when the index is past the end
GetProxy ==
    /\ IF px_proxies = <<>>
       THEN px_last' = [proxy |-> 0, raised |-> FALSE] /\ UNCHANGED px_index
       ELSE IF px_index >= Len(px_proxies)
       THEN px_last' = [proxy |-> 0, raised |-> TRUE] /\ UNCHANGED px_index
       ELSE /\ px_last' = [proxy |-> px_proxies[px_index + 1].id, raised |-> FALSE]
            /\ px_index' = (px_index + 1) % Len(px_proxies)
    /\ UNCHANGED <<notProxy, variant, scope_manager, px_proxies, px_reports>>

\* report_success on the k-th proxy of the pool
ReportProxySuccess(k) ==
    /\ px_reports < MaxReports
    /\ px_reports' = px_reports + 1
    /\ px_proxies' = [px_proxies EXCEPT ![k].health = IF @ + 1 < 100 THEN @ + 1 ELSE 100]
    /\ UNCHANGED <<notProxy, variant, scope_manager, px_index, px_last>>

\* report_failure on the k-th proxy of the pool: the proxy is removed when its
\* health falls below 0.2; current_index is left as it is
ReportProxyFailure(k) ==
    /\ px_reports < MaxReports
    /\ px_reports' = px_reports + 1
    /\ LET health == IF px_proxies[k].health - 10 > 0 THEN px_proxies[k].health - 10 ELSE 0
       IN px_proxies' = IF Unhealthy(health)
                        THEN Remove(px_proxies, k)
                        ELSE [px_proxies EXCEPT ![k].health = health]
    /\ UNCHANGED <<notProxy, variant, scope_manager, px_index, px_last>>

ReportProxySuccessAny == \E k \in 1..Len(px_proxies) : ReportProxySuccess(k)
ReportProxyFailureAny == \E k \in 1..Len(px_proxies) : ReportProxyFailure(k)

NextProxy ==
    \/ GetProxy
    \/ ReportProxySuccessAny
    \/ ReportProxyFailureAny

SpecProxy == InitProxy /\ [][NextProxy]_vars

----------------------------------------------------------------------------
(* Properties of the local crawl *)

Holding(w) == w_pc[w] = "fetch"

Recorded(u) == \E i \in 1..Len(results) : results[i].url = u

C2_OnePutPerURL == \A u \in DOMAIN put_count : put_count[u] <= 1

\* C5: every record's url is one the scope engine decides IN
C5_ScopeSound ==
    \A i \in 1..Len(results) : is_in_scope(scope_manager, results[i].url)

\* the root page, which links to an out-of-scope host, was fetched and a link
\* of it was followed
C5_Witness ==
    /\ ~is_in_scope(scope_manager, PageAdmin)
    /\ \E i, j \in 1..Len(results) :
        /\ results[i].url = PageRoot /\ results[i].success
        /\ results[j].depth = 1

\* C7: every record has 0 <= depth <= the max_depth passed to crawl()
C7_DepthBound ==
    \A i \in 1..Len(results) : 0 <= results[i].depth /\ results[i].depth <= max_depth_arg

\* C8: a crawl of a finite in-scope graph that nobody stops returns, and when
\* it has returned the queue is empty and no worker holds an item
C8_CrawlTerminates ==
    /\ (crawl_pc = "join") ~> (crawl_pc = "done")
    /\ [](crawl_pc = "done" => queue = <<>> /\ \A w \in Workers : ~Holding(w))

\* the crawl has returned after fetching, with an already-visited item skipped
C8_Witness ==
    /\ crawl_pc = "done"
    /\ Len(results) >= 2
    /\ \E u \in DOMAIN put_count : put_count[u] >= 2

\* C10: once a stop is requested, crawl() eventually returns
C10_StopTerminates == stop_requested ~> (crawl_pc = "done")

\* items join() still waits for: put and not yet acknowledged
AckBalance == unfinished = Len(queue) + Cardinality({w \in Workers : Holding(w)})

\* the same count for the url_queue of the CLI orchestrator
MAckBalance == m_unfinished = Len(url_queue) + Cardinality({w \in Workers : mw_pc[w] = "proc"})

HttpFailure(i) == ~results[i].success /\ ~results[i].error

\* C14: a url whose fetch returned 429 is fetched again, and by the time the
\* crawl returns the pacer's current_interval is above min_interval
C14_RetryAfter429 ==
    crawl_pc = "done" =>
        \A i \in 1..Len(results) :
            HttpFailure(i) =>
                /\ \E j \in (i + 1)..Len(results) : results[j].url = results[i].url
                /\ FracLt(rl_min_interval, rl_current_interval)

\* the crawl of the site with the four spellings of /a has returned: it was
\* started with max_depth = 1 on the front page alone, which was served
VariantCrawlDone ==
    /\ crawl_pc = "done"
    /\ web = "variants"
    /\ max_depth_arg = 1
    /\ \E i \in 1..Len(results) : results[i].depth = 0
    /\ \A i \in 1..Len(results) :
          results[i].depth = 0 =>
              results[i].url = PageRoot /\ results[i].success /\ ~results[i].error

\* C24: with seed https://s.example.com/ linking to /a, /a#frag, /a?b=1&a=2
\* and /a?a=2&b=1, max_depth = 1 and include *.example.com, the crawl fetches
\* the seed and exactly one more url
C24_OneVariantFetched == VariantCrawlDone => Len(results) = 2

\* the record of a page that was fetched and whose links were extracted
FetchedOK(r) == r.success /\ ~r.error

\* the in-scope canonical links of a page
InScopeLinks(u) == {l \in extract_links(u) : is_in_scope(scope_manager, l)}

\* C36: when crawl() has returned, the records are those of the in-scope urls
\* within max_depth links of the seeds, each at its shortest distance: every
\* in-scope link of a page fetched at a depth below max_depth has a record,
\* and no record lies more than one level below a fetched page that links to it
C36_ScheduleIndependent ==
    crawl_pc = "done" =>
        \A i \in 1..Len(results) :
            FetchedOK(results[i]) =>
                \A l \in InScopeLinks(results[i].url) :
                    /\ results[i].depth < max_depth => Recorded(l)
                    /\ \A j \in 1..Len(results) :
                          results[j].url = l => results[j].depth <= results[i].depth + 1

\* C28: a fetch that failed is stored as a record with success = false and the
\* error field set; the record is appended whatever the outcome
C28_FailedFetchRecord ==
    \A i \in 1..Len(results) : results[i].error => ~results[i].success

\* C39: no record built by _crawl_page has success = true together with an
\* error, in the local results and in the shared results list alike
C39_NoSuccessWithError ==
    /\ \A i \in 1..Len(results) : ~(results[i].success /\ results[i].error)
    /\ \A i \in 1..Len(d_results) : ~(d_results[i].success /\ d_results[i].error)

----------------------------------------------------------------------------
(* Properties of the CLI orchestrator *)

Pushes(u) == IF u \in DOMAIN m_put_count THEN m_put_count[u] ELSE 0

PushesAfter(u) == IF u \in DOMAIN m_put_count' THEN m_put_count'[u] ELSE 0

\* every url the program can hand to enqueue, as enqueue normalises it
EnqueueArgs ==
    {normalize_url(normalize_url(x)) :
        x \in MainSeedURLs \cup UNION {Hrefs(pg) : pg \in {PageRoot, PageA, PageB, PageC}}}

QueuedAreVisited == \A i \in 1..Len(url_queue) : url_queue[i] \in visited_urls

OnePushPerURL == \A u \in DOMAIN m_put_count : m_put_count[u] <= 1

\* the cache test of enqueue never rejects a url the visited test admits
CacheAgrees == \A u \in EnqueueArgs : u \in url_cache => u \in visited_urls

\* a url is pushed only if it was not visited, and is marked in the same step;
\* visited_urls grows by nothing else
PushMarks ==
    /\ \A u \in DOMAIN m_put_count' :
        PushesAfter(u) > Pushes(u) => u \notin visited_urls /\ u \in visited_urls'
    /\ \A u \in visited_urls' \ visited_urls : PushesAfter(u) > Pushes(u)

\* C3: enqueue is an atomic check-then-insert: a visited url is dropped, any
\* other is marked and pushed in one step; queued urls are visited and no url
\* is pushed twice
C3_EnqueueAtomic ==
    /\ [](QueuedAreVisited /\ OnePushPerURL /\ CacheAgrees)
    /\ [][PushMarks]_vars

\* the same in-scope seed was given twice, pushed once, and a worker has
\* pushed a discovered link
C3_Witness ==
    /\ Len(urls) = 2
    /\ urls[1] = urls[2]
    /\ Pushes(normalize_url(normalize_url(urls[1]))) = 1
    /\ Cardinality(DOMAIN m_put_count) >= 2

\* C26: after a resume every url that was pending in the snapshot is back in
\* the crawl (on the queue, held by a worker, or fetched), and no url of the
\* snapshot's results is fetched again
C26_ResumeRestoresPending ==
    resumed_from # <<>> =>
        /\ \A u \in Range(resumed_from.queue) :
              \/ u \in Range(url_queue)
              \/ \E w \in Workers : mw_url[w] = u
              \/ u \in DOMAIN m_results
        /\ DOMAIN m_results \cap DOMAIN resumed_from.results = {}

\* C27: every snapshot save_checkpoint takes while workers are running has
\* each url of its pending queue in its visited set
C27_SnapshotConsistent ==
    checkpoint # <<>> => Range(checkpoint.queue) \subseteq checkpoint.visited_urls

\* a snapshot with pending urls was taken while another worker was in the
\* middle of a url
C27_Witness ==
    /\ checkpoint # <<>>
    /\ checkpoint.queue # <<>>
    /\ checkpoint.queue = url_queue
    /\ \E w \in Workers : mw_pc[w] = "proc"

\* C9: once the page cap is reached and crawl_main has left its loop, the
\* orchestrator stops: no further url is taken from the queue
C9_StopsAtCap ==
    [][(o_pc = "join" /\ Cardinality(DOMAIN m_results) >= max_pages)
          => Len(url_queue') >= Len(url_queue)]_vars

\* no url of the command line is decided IN
NoSeedInScope ==
    \A i \in 1..Len(urls) : ~is_in_scope(scope_manager, normalize_url(urls[i]))

\* C12: when no seed passes the scope filter, crawl_main ends with the fatal
\* scope-too-strict error, no worker was started and nothing was fetched
C12_ScopeTooStrict ==
    (o_pc # "init" /\ NoSeedInScope) =>
        /\ o_pc = "fatal"
        /\ \A w \in Workers : mw_pc[w] = "none"
        /\ DOMAIN m_results = {}

\* crawl_main has failed on an excluded seed and a seed two labels deep
C12_Witness ==
    /\ o_pc = "fatal"
    /\ \E i, j \in 1..Len(urls) : urls[i] = PageAdmin /\ urls[j] = PageDeep

C32_NoEnqueueAfterCap ==
    [][(o_pc \in {"loop", "join"} /\ Cardinality(DOMAIN m_results) >= max_pages)
          => m_put_count' = m_put_count]_vars

\* C37: crawl_main raises the fatal no-urls error only if every seed is out
\* of scope; a seed decided IN is on the queue when the workers start,
\* whatever the url cache on disk holds
C37_FatalOnlyOutOfScope ==
    /\ [](o_pc = "fatal" => NoSeedInScope)
    /\ [][o_pc = "init" /\ o_pc' # "init" =>
            \A i \in 1..Len(urls') :
                is_in_scope(scope_manager, normalize_url(urls'[i]))
                    => normalize_url(urls'[i]) \in Range(url_queue')]_vars

\* C38: in every snapshot each url of the saved visited set is in the saved
\* queue or has a record in the saved results
C38_SnapshotComplete ==
    checkpoint # <<>> =>
        \A u \in checkpoint.visited_urls :
            u \in Range(checkpoint.queue) \/ u \in DOMAIN checkpoint.results

\* C29: a record stored in state.results is never replaced or changed by a
\* later step
C29_RecordsImmutable ==
    [][\A u \in DOMAIN m_results :
          u \in DOMAIN m_results' /\ m_results'[u] = m_results[u]]_vars

----------------------------------------------------------------------------
(* Properties of the distributed crawl *)

\* C4: across all workers every url is fetched at most once and appears at
\* most once in the shared results list
C4_DistAtMostOnce ==
    \A i, j \in 1..Len(d_results) : d_results[i].url = d_results[j].url => i = j

\* C31: every record of the shared results list has a url the scope engine
\* decides IN, seeds included
C31_DistScopeSound ==
    \A i \in 1..Len(d_results) : is_in_scope(scope_manager, d_results[i].url)

\* C35: every record of the shared results list has a depth between 0 and the
\* max_depth given to run_master
C35_DistDepthBound ==
    \A i \in 1..Len(d_results) :
        0 <= d_results[i].depth /\ d_results[i].depth <= d_max_depth_arg

\* C30: an unreachable store never stops a worker (a worker leaves its loop
\* only when the queue is empty) and adds no record to the results
C30_OutageDoesNotStop ==
    [][/\ \A w \in Workers :
            d_pc[w] # "stopped" /\ d_pc'[w] = "stopped" => d_queue = <<>>
       /\ (DGetFailsAny \/ DQueueSizeFailsAny) => d_results' = d_results]_vars

----------------------------------------------------------------------------
(* Properties of the scope engine *)

\* urlparse(url).hostname: the host of the url in lowercase, port left out
Hostname(url) == Lower(url.host)

\* an added pattern matches a host: literally, or through its wildcard
PatternMatchesHost(p, h) ==
    IF HasStar(p) THEN RegexMatchLabels(pattern_to_regex(p), h) ELSE p = h

ExcludeMatches(url) ==
    \E i \in 1..Len(scope_manager.out_of_scope_patterns) :
        PatternMatchesHost(scope_manager.out_of_scope_patterns[i], Hostname(url))

\* C6: whenever an exclude pattern, exact or wildcard, matches the host of
\* the url, is_in_scope returns False, whatever the include patterns are
C6_ExclusionPriority ==
    (s_decision # <<>> /\ ExcludeMatches(s_url)) => s_decision = <<FALSE>>

IncludeMatches(url) ==
    \E i \in 1..Len(scope_manager.in_scope_patterns) :
        PatternMatchesHost(scope_manager.in_scope_patterns[i], Hostname(url))

\* C19: is_in_scope is True iff no exclude pattern matches the host and
\* either no include pattern was added or some include pattern matches it;
\* only the patterns added count, not the order they were added in
C19_ScopeDecision ==
    s_decision # <<>> =>
        (s_decision = <<TRUE>>
            <=> /\ ~ExcludeMatches(s_url)
                /\ \/ scope_manager.in_scope_patterns = <<>>
                   \/ IncludeMatches(s_url))

\* the only pattern added is an include pattern *.base
OnlySingleWildcard ==
    /\ scope_manager.out_of_scope_patterns = <<>>
    /\ Len(scope_manager.in_scope_patterns) = 1
    /\ Len(scope_manager.in_scope_patterns[1]) > 1
    /\ scope_manager.in_scope_patterns[1][1] = "*"
    /\ ~HasStar(Tail(scope_manager.in_scope_patterns[1]))

\* C20: *.base matches the host of a url iff the host is exactly one label
\* followed by .base, so neither base itself nor a host with two or more
\* labels in front of base
C20_SingleWildcard ==
    (s_decision # <<>> /\ OnlySingleWildcard) =>
        LET base == Tail(scope_manager.in_scope_patterns[1])
            h == Hostname(s_url)
        IN s_decision = <<TRUE>> <=> (Len(h) = Len(base) + 1 /\ Tail(h) = base)

\* the only pattern added is an include pattern **.base
OnlyDeepWildcard ==
    /\ scope_manager.out_of_scope_patterns = <<>>
    /\ Len(scope_manager.in_scope_patterns) = 1
    /\ Len(scope_manager.in_scope_patterns[1]) > 1
    /\ scope_manager.in_scope_patterns[1][1] = "**"
    /\ ~HasStar(Tail(scope_manager.in_scope_patterns[1]))

\* host h ends with the labels of base
EndsWith(h, base) ==
    Len(h) >= Len(base) /\ SubSeq(h, Len(h) - Len(base) + 1, Len(h)) = base

\* C21: **.base matches host H iff H equals base or H ends with .base, with
\* any number of labels in front; x.y.example.com and example.com are both
\* in scope under include **.example.com
C21_DeepWildcard ==
    (s_decision # <<>> /\ OnlyDeepWildcard) =>
        LET base == Tail(scope_manager.in_scope_patterns[1])
        IN s_decision = <<TRUE>> <=> EndsWith(Hostname(s_url), base)

\* C22: with only the include pattern **.example.com, is_in_scope is True for
\* every host with one or more labels in front of example.com and False for
\* example.com itself
C22_NestedWildcard ==
    (/\ s_decision # <<>>
     /\ scope_manager.out_of_scope_patterns = <<>>
     /\ scope_manager.in_scope_patterns = << <<"**", "example", "com">> >>) =>
        /\ (Len(Hostname(s_url)) > 2 /\ EndsWith(Hostname(s_url), <<"example", "com">>))
              => s_decision = <<TRUE>>
        /\ Hostname(s_url) = <<"example", "com">> => s_decision = <<FALSE>>

\* the patterns of a list that match the host of the url
Matching(patterns, url) ==
    {patterns[i] : i \in {j \in 1..Len(patterns) : PatternMatchesHost(patterns[j], Hostname(url))}}

\* the patterns the entries of a test_url answer name
Named(entries) == {entries[i][2] : i \in 1..Len(entries)}

\* C34: test_url returns in_scope equal to is_in_scope, its matches_in_scope
\* and matches_out_of_scope name exactly the include and exclude patterns that
\* match the host, and reason is EXCLUDED iff some exclude pattern matches
C34_Explain ==
    s_test # <<>> =>
        LET t == s_test[1]
        IN /\ t.in_scope = is_in_scope(scope_manager, s_url)
           /\ Named(t.matches_in_scope) = Matching(scope_manager.in_scope_patterns, s_url)
           /\ Named(t.matches_out_of_scope)
                 = Matching(scope_manager.out_of_scope_patterns, s_url)
           /\ t.reason = "EXCLUDED" <=> ExcludeMatches(s_url)

----------------------------------------------------------------------------
(* Properties of the rate limiters *)

\* C15: in every window between two completed acquire() calls, the number of
\* calls completed is at most rate * T + capacity (T the window in seconds)
C15_RateBound ==
    \A i, j \in 1..Len(tb_log) :
        i <= j =>
            (j - i + 1) * TicksPerSecond
                <= tb_rate * (tb_log[j] - tb_log[i]) + tb_capacity * TicksPerSecond

\* tokens earned since updated_at, in whole tokens
Earned == ((tb_now - tb_updated_at) * tb_rate) \div TicksPerSecond

\* an acquire() call returns in this step
AcquireCompletes == Len(tb_log') = Len(tb_log) + 1

\* C33: the bucket always holds between 0 and capacity tokens, and each
\* acquire() that returns has taken exactly one token that was there, however
\* many coroutines are waiting
C33_OneTokenPerAcquire ==
    /\ [](0 <= tb_tokens /\ tb_tokens <= tb_capacity)
    /\ [][/\ Len(tb_log') <= Len(tb_log) + 1
          /\ AcquireCompletes =>
                LET had == IF tb_tokens + Earned < tb_capacity
                           THEN tb_tokens + Earned ELSE tb_capacity
                IN had >= 1 /\ tb_tokens' = had - 1
          /\ ~AcquireCompletes => tb_tokens' >= tb_tokens]_vars

\* an acquire() returned after the bucket had been emptied, while the clock
\* had moved on: the caller had to wait for its token
C33_Witness ==
    /\ Len(tb_log) > tb_capacity
    /\ tb_tokens = 0
    /\ tb_holder = 0

\* 2^min(n, 5), the factor the specification names for n consecutive errors
ErrorFactor(n) == 2^(IF n < 5 THEN n ELSE 5)

\* C16: report_error with status 429 or in [500, 600) leaves current_interval
\* at min(60 s, its value before the call * 2^min(consecutive errors, 5)),
\* any other status leaves it unchanged, and a success resets the error counter
C16_ErrorBackoff ==
    /\ rl_last.op = "report_error" =>
          rl_current_interval =
              IF rl_last.status = 429 \/ (500 <= rl_last.status /\ rl_last.status < 600)
              THEN FracMin(<<60, 1>>,
                           FracMul(rl_last.before, <<ErrorFactor(rl_last.errors_before + 1), 1>>))
              ELSE rl_last.before
    /\ rl_last.op = "report_success" => rl_error_count = 0

\* C17, as stated: on every limiter report_success multiplies current_interval
\* by 0.9, floored at min_interval, and resets the success counter exactly when
\* it is the 10th consecutive success since the last error or reduction
C17_TenthSuccess_AnyLimiter ==
    rl_last.op = "report_success" =>
        IF rl_last.nth = 10
        THEN /\ rl_current_interval = FracMax(rl_min_interval, FracMul(rl_last.before, <<9, 10>>))
             /\ rl_success_count = 0
        ELSE rl_current_interval = rl_last.before

\* C17, amended: the reduction happens on an adaptive limiter only, exactly on
\* the 10th consecutive success since the last error, reduction or reset;
\* every other report_success leaves current_interval unchanged and counts
C17_TenthSuccess ==
    rl_last.op = "report_success" =>
        IF rl_adaptive /\ rl_last.nth_run = 10
        THEN /\ rl_current_interval = FracMax(rl_min_interval, FracMul(rl_last.before, <<9, 10>>))
             /\ rl_success_count = 0
        ELSE /\ rl_current_interval = rl_last.before
             /\ rl_success_count = rl_last.successes_before + 1

\* a 10th success in a row has shortened a raised interval
C17_Witness ==
    /\ rl_last.op = "report_success"
    /\ rl_adaptive
    /\ rl_last.nth_run = 10
    /\ FracLt(rl_current_interval, rl_last.before)
    /\ FracLt(rl_min_interval, rl_current_interval)

\* C18: whatever requests_per_second the limiter was built with, after any
\* calls min_interval <= current_interval, and once an error has raised the
\* interval it is at most 60 s
C18_IntervalRange ==
    /\ FracLeq(rl_min_interval, rl_current_interval)
    /\ rl_last.raised => FracLeq(rl_current_interval, <<60, 1>>)

----------------------------------------------------------------------------
(* Properties of the normaliser *)

\* C23: normalize_url is idempotent: normalising a normalised url returns it
\* unchanged, for paths with repeated or trailing slashes and urls with a
\* query as well
C23_Idempotent ==
    \A i \in 2..Len(n_out) : n_out[i] = n_out[1]

----------------------------------------------------------------------------
(* Properties of the checkpoints *)

\* a queue item as json.load returns it: a tuple has become a list
AsLoaded(x) == IF IsSequence(x) THEN [t |-> "list", v |-> x.v] ELSE x

----------------------------------------------------------------------------
(* Properties of the proxy pool *)

\* C40: whenever the pool is non-empty current_index is a valid index, and a
\* round-robin get_proxy never fails
C40_IndexValid ==
    /\ px_proxies # <<>> => (0 <= px_index /\ px_index < Len(px_proxies))
    /\ px_last # <<>> => ~px_last.raised

====
